---- MODULE Spec2Model ----
(***************************************************************************)
(* Hybrid query routing and retrieval core of the Fallout 76 build         *)
(* assistant: rag/hybrid_query_engine.py (HybridFalloutRAG), the exact     *)
(* path rag/query_engine.py (FalloutRAG) and the interactive loop of       *)
(* rag/cli.py.                                                             *)
(*                                                                         *)
(* Text is modelled at character level: a Python str is a sequence of      *)
(* one-character strings, so that `keyword in question_lower`, the regular *)
(* expressions of extract_named_items and SQL LIKE are computed as the     *)
(* code computes them.                                                     *)
(***************************************************************************)
EXTENDS Integers, Sequences, FiniteSets, TLC

VARIABLES
  question,              \* the question being processed
  intent,                \* classify_intent(question)
  category_filter,       \* detect_category_filter(question)
  potential_names,       \* extract_named_items(question)['potential_names']
  db,                    \* the relational views, read through db.execute_query
  enriched,              \* the dict of lists handed to format_vector_results
  prompt,                \* the last prompt built: preamble turns and context
  outcome,               \* how the last call ended: "returned" or "raised"
  answer,                \* first component of the pair ask returned
  method,                \* second component of the pair ask returned
  calls,                 \* round trips of the last call, per collaborator
  sql_run,               \* the exact path's generated query and how it ran
  env,                   \* the collaborators' behaviour during the last call
  conversation_history,  \* HybridFalloutRAG.conversation_history
  sql_history,           \* FalloutRAG.conversation_history (engine.sql_rag)
  asked,                 \* number of calls made in this session
  cleared,               \* the last command of the session was 'clear'
  previous,              \* what the call before the last one left behind
  turns,                 \* the turns answered so far in this session, in order
  rag_engine,            \* api/routes/rag.py: the singleton _rag_engine exists
  response,              \* the last response of the /rag endpoints
  stored,                \* rows committed to the table the import writes
  importer,              \* the BulkImporter block: position, rows, statistics
  lookup                 \* DatabaseMCP: a lookup table, _cache and _cache_enabled

vars ==
  <<question, intent, category_filter, potential_names, db, enriched, prompt,
    outcome, answer, method, calls, sql_run, env, conversation_history,
    sql_history, asked, cleared, previous, turns, rag_engine, response, stored,
    importer, lookup>>

textVars == <<question, intent, category_filter, potential_names>>

callVars == <<enriched, prompt, outcome, answer, method, calls, sql_run, env>>

sessionVars ==
  <<conversation_history, sql_history, asked, cleared, previous, turns>>

apiVars == <<rag_engine, response>>

importVars == <<stored, importer>>

lookupVars == <<lookup>>

(***************************************************************************)
(* Characters and the str operations the engine uses.                      *)
(***************************************************************************)
UpperLetters ==
  <<"A","B","C","D","E","F","G","H","I","J","K","L","M",
    "N","O","P","Q","R","S","T","U","V","W","X","Y","Z">>

LowerLetters ==
  <<"a","b","c","d","e","f","g","h","i","j","k","l","m",
    "n","o","p","q","r","s","t","u","v","w","x","y","z">>

Digits == {"0","1","2","3","4","5","6","7","8","9"}

UpperSet == {UpperLetters[i] : i \in DOMAIN UpperLetters}

LowerSet == {LowerLetters[i] : i \in DOMAIN LowerLetters}

\* the lower-case letter of each upper-case letter
ToLower ==
  [c \in UpperSet |->
     LowerLetters[CHOOSE i \in DOMAIN UpperLetters : UpperLetters[i] = c]]

\* str.isupper() of one character
IsUpper(c) == c \in UpperSet

IsLower(c) == c \in LowerSet

\* \s of the re module
IsSpace(c) == c \in {" ", "\t", "\n"}

\* \w of the re module
IsWord(c) == c \in UpperSet \/ c \in LowerSet \/ c \in Digits \/ c = "_"

IsQuote(c) == c \in {"\"", "'"}

LowerChar(c) == IF c \in UpperSet THEN ToLower[c] ELSE c

\* str.lower()
lower(s) == [i \in 1..Len(s) |-> LowerChar(s[i])]

\* `sub in s`
Contains(sub, s) ==
  \E i \in 0..(Len(s) - Len(sub)) : SubSeq(s, i + 1, i + Len(sub)) = sub

\* s.startswith(sub, i - 1), positions counted from 1
StartsAt(sub, s, i) ==
  /\ i + Len(sub) - 1 <= Len(s)
  /\ SubSeq(s, i, i + Len(sub) - 1) = sub

RECURSIVE Replace(_, _)
\* s.replace(phrase, '')
Replace(s, phrase) ==
  IF Len(phrase) = 0 \/ Len(s) = 0 THEN s
  ELSE IF StartsAt(phrase, s, 1)
       THEN Replace(SubSeq(s, Len(phrase) + 1, Len(s)), phrase)
       ELSE <<Head(s)>> \o Replace(Tail(s), phrase)

RECURSIVE ReplaceAll(_, _)
\* the loop `for phrase in long_phrases: q = q.replace(phrase, '')`
ReplaceAll(s, phrases) ==
  IF phrases = <<>> THEN s
  ELSE ReplaceAll(Replace(s, Head(phrases)), Tail(phrases))

(***************************************************************************)
(* detect_category_filter                                                  *)
(***************************************************************************)
None == [type |-> "None"]

\* the dict weapon_classes, in insertion order
weapon_classes ==
  << [keyword |-> <<"s","h","o","t","g","u","n">>, type |-> "weapon", class_pattern |-> <<"%","s","h","o","t","g","u","n","%">>],
     [keyword |-> <<"r","i","f","l","e">>, type |-> "weapon", class_pattern |-> <<"%","r","i","f","l","e","%">>],
     [keyword |-> <<"p","i","s","t","o","l">>, type |-> "weapon", class_pattern |-> <<"%","p","i","s","t","o","l","%">>],
     [keyword |-> <<"h","e","a","v","y"," ","g","u","n">>, type |-> "weapon", class_pattern |-> <<"%","h","e","a","v","y"," ","g","u","n","%">>],
     [keyword |-> <<"m","e","l","e","e">>, type |-> "weapon", class_pattern |-> <<"%","m","e","l","e","e","%">>] >>

\* a detection in which the last class named in the dict wins
detect_category_filter_last(q) ==
  LET question_lower == lower(q)
      hits == {i \in DOMAIN weapon_classes :
                 Contains(weapon_classes[i].keyword, question_lower)}
  IN IF hits = {} THEN None
     ELSE LET last == CHOOSE i \in hits : \A j \in hits : i >= j
          IN [type |-> weapon_classes[last].type,
              class_pattern |-> weapon_classes[last].class_pattern]

detect_category_filter(q) ==
  LET question_lower == lower(q)
      hits == {i \in DOMAIN weapon_classes :
                 Contains(weapon_classes[i].keyword, question_lower)}
  IN IF hits = {} THEN None
     ELSE LET first == CHOOSE i \in hits : \A j \in hits : i <= j
          IN [type |-> weapon_classes[first].type,
              class_pattern |-> weapon_classes[first].class_pattern]

(***************************************************************************)
(* classify_intent                                                         *)
(***************************************************************************)
conceptual_keywords ==
  << <<"b","e","s","t">>,
     <<"w","o","r","s","t">>,
     <<"t","o","p">>,
     <<"s","i","m","i","l","a","r"," ","t","o">>,
     <<"l","i","k","e">>,
     <<"r","e","c","o","m","m","e","n","d">>,
     <<"b","u","i","l","d"," ","f","o","r">>,
     <<"g","o","o","d"," ","f","o","r">>,
     <<"s","y","n","e","r","g","i","z","e">>,
     <<"c","o","m","p","l","e","m","e","n","t">>,
     <<"w","o","r","k"," ","w","i","t","h">>,
     <<"c","o","m","p","a","r","e">>,
     <<"v","e","r","s","u","s">>,
     <<"v","s">>,
     <<"b","e","t","t","e","r"," ","t","h","a","n">>,
     <<"b","l","o","o","d","i","e","d">>,
     <<"s","t","e","a","l","t","h">>,
     <<"t","a","n","k">>,
     <<"v","a","t","s">>,
     <<"h","e","a","v","y"," ","g","u","n","n","e","r">>,
     <<"r","i","f","l","e","m","a","n">>,
     <<"c","o","m","m","a","n","d","o">>,
     <<"m","e","l","e","e">>,
     <<"u","n","a","r","m","e","d">>,
     <<"s","h","o","t","g","u","n","n","e","r">>,
     <<"m","u","t","a","t","i","o","n","s"," ","f","o","r">>,
     <<"p","e","r","k","s"," ","f","o","r">>,
     <<"w","e","a","p","o","n","s"," ","f","o","r">>,
     <<"a","r","m","o","r"," ","f","o","r">> >>

exact_keywords ==
  << <<"s","h","o","w"," ","m","e"," ","a","l","l">>,
     <<"l","i","s","t"," ","a","l","l">>,
     <<"h","o","w"," ","m","a","n","y">>,
     <<"d","a","m","a","g","e"," ","o","f">>,
     <<"s","t","a","t","s"," ","o","f">>,
     <<"e","f","f","e","c","t"," ","o","f">>,
     <<"r","a","n","k","s"," ","o","f">>,
     <<"w","h","a","t"," ","a","r","e"," ","t","h","e"," ","s","t","a","t","s">>,
     <<"w","h","a","t"," ","a","r","e"," ","t","h","e"," ","e","f","f","e","c","t","s">>,
     <<"w","h","a","t"," ","a","r","e"," ","t","h","e"," ","r","a","n","k","s">> >>

WHAT_IS == <<"w","h","a","t"," ","i","s">>

WHAT_DOES == <<"w","h","a","t"," ","d","o","e","s">>

\* a classifier that looks for the exact keywords first
classify_intent_exact_first(q) ==
  LET question_lower == lower(q) IN
  IF \E i \in DOMAIN exact_keywords :
       Contains(exact_keywords[i], question_lower)
  THEN "EXACT"
  ELSE IF \E i \in DOMAIN conceptual_keywords :
            Contains(conceptual_keywords[i], question_lower)
  THEN "CONCEPTUAL"
  ELSE IF Contains(WHAT_IS, question_lower) \/ Contains(WHAT_DOES, question_lower)
  THEN IF \E i \in DOMAIN q : IsUpper(q[i]) THEN "EXACT" ELSE "CONCEPTUAL"
  ELSE "CONCEPTUAL"

classify_intent(q) ==
  LET question_lower == lower(q) IN
  IF \E i \in DOMAIN conceptual_keywords :
       Contains(conceptual_keywords[i], question_lower)
  THEN "CONCEPTUAL"
  ELSE IF \E i \in DOMAIN exact_keywords :
            Contains(exact_keywords[i], question_lower)
  THEN "EXACT"
  ELSE IF Contains(WHAT_IS, question_lower) \/ Contains(WHAT_DOES, question_lower)
  THEN IF \E i \in DOMAIN q : IsUpper(q[i]) THEN "EXACT" ELSE "CONCEPTUAL"
  ELSE "CONCEPTUAL"

(***************************************************************************)
(* extract_named_items: the three regular expressions, matched as          *)
(* re.findall matches them (leftmost, greedy, non-overlapping).  A         *)
(* position is an index into the sequence; an end position is the index    *)
(* after the match, 0 when there is no match.                              *)
(***************************************************************************)
WordAt(s, i) == i >= 1 /\ i <= Len(s) /\ IsWord(s[i])

RECURSIVE LowerRunEnd(_, _)
\* [a-z]* from i
LowerRunEnd(s, i) ==
  IF i <= Len(s) /\ IsLower(s[i]) THEN LowerRunEnd(s, i + 1) ELSE i

RECURSIVE SpaceRunEnd(_, _)
\* \s* from i
SpaceRunEnd(s, i) ==
  IF i <= Len(s) /\ IsSpace(s[i]) THEN SpaceRunEnd(s, i + 1) ELSE i

RECURSIVE NonQuoteRunEnd(_, _)
\* [^"']* from i
NonQuoteRunEnd(s, i) ==
  IF i <= Len(s) /\ ~IsQuote(s[i]) THEN NonQuoteRunEnd(s, i + 1) ELSE i

\* [A-Z][a-z]+ at i
CapWordEnd(s, i) ==
  IF i >= 1 /\ i + 1 <= Len(s) /\ IsUpper(s[i]) /\ IsLower(s[i + 1])
  THEN LowerRunEnd(s, i + 1)
  ELSE 0

\* \s+ at i
SpacesEnd(s, i) ==
  IF i >= 1 /\ i <= Len(s) /\ IsSpace(s[i]) THEN SpaceRunEnd(s, i) ELSE 0

CONNECTORS == << <<"a","n","d">>, <<"t","h","e">>, <<"o","f">> >>

\* (?:and|the|of) at i
ConnectorEnd(s, i) ==
  LET ok == {k \in DOMAIN CONNECTORS : i >= 1 /\ StartsAt(CONNECTORS[k], s, i)}
  IN IF ok = {} THEN 0
     ELSE i + Len(CONNECTORS[CHOOSE k \in ok : \A j \in ok : k <= j])

\* (?:\s+(?:and|the|of)\s+[A-Z][a-z]+) at i
LongGroupEnd(s, i) ==
  LET s1 == SpacesEnd(s, i)
      c == IF s1 = 0 THEN 0 ELSE ConnectorEnd(s, s1)
      s2 == IF c = 0 THEN 0 ELSE SpacesEnd(s, c)
  IN IF s2 = 0 THEN 0 ELSE CapWordEnd(s, s2)

RECURSIVE LongGroupsEnd(_, _)
\* (?:...)+\b from i: as many groups as possible, giving groups back until
\* the closing \b holds
LongGroupsEnd(s, i) ==
  LET g == LongGroupEnd(s, i) IN
  IF g = 0 THEN 0
  ELSE LET deeper == LongGroupsEnd(s, g) IN
       IF deeper # 0 THEN deeper
       ELSE IF ~WordAt(s, g) THEN g ELSE 0

\* pattern_long at i
LongMatchEnd(s, i) ==
  IF WordAt(s, i - 1) THEN 0
  ELSE LET e == CapWordEnd(s, i) IN
       IF e = 0 THEN 0 ELSE LongGroupsEnd(s, e)

\* pattern_short at i
ShortMatchEnd(s, i) ==
  IF WordAt(s, i - 1) THEN 0
  ELSE LET e1 == CapWordEnd(s, i)
           sp == IF e1 = 0 THEN 0 ELSE SpacesEnd(s, e1)
           e2 == IF sp = 0 THEN 0 ELSE CapWordEnd(s, sp)
       IN IF e2 # 0 /\ ~WordAt(s, e2) THEN e2 ELSE 0

\* quoted_pattern at i: the end is the index after the closing quote
QuotedMatchEnd(s, i) ==
  IF i + 1 <= Len(s) /\ IsQuote(s[i]) /\ ~IsQuote(s[i + 1])
  THEN LET e == NonQuoteRunEnd(s, i + 1)
       IN IF e <= Len(s) THEN e + 1 ELSE 0
  ELSE 0

RECURSIVE FindAllLong(_, _)
FindAllLong(s, i) ==
  IF i > Len(s) THEN <<>>
  ELSE LET e == LongMatchEnd(s, i) IN
       IF e # 0 THEN <<SubSeq(s, i, e - 1)>> \o FindAllLong(s, e)
       ELSE FindAllLong(s, i + 1)

RECURSIVE FindAllShort(_, _)
FindAllShort(s, i) ==
  IF i > Len(s) THEN <<>>
  ELSE LET e == ShortMatchEnd(s, i) IN
       IF e # 0 THEN <<SubSeq(s, i, e - 1)>> \o FindAllShort(s, e)
       ELSE FindAllShort(s, i + 1)

RECURSIVE FindAllQuoted(_, _)
FindAllQuoted(s, i) ==
  IF i > Len(s) THEN <<>>
  ELSE LET e == QuotedMatchEnd(s, i) IN
       IF e # 0 THEN <<SubSeq(s, i + 1, e - 2)>> \o FindAllQuoted(s, e)
       ELSE FindAllQuoted(s, i + 1)

stop_phrases ==
  { <<"W","h","a","t">>,
    <<"T","h","e">>,
    <<"H","o","w">>,
    <<"W","h","y">>,
    <<"W","h","e","n">>,
    <<"W","h","e","r","e">>,
    <<"W","h","i","c","h">>,
    <<"W","h","o">>,
    <<"B","e","s","t">>,
    <<"G","o","o","d">>,
    <<"B","e","t","t","e","r">>,
    <<"W","e","a","p","o","n","s">>,
    <<"P","e","r","k","s">>,
    <<"A","r","m","o","r">>,
    <<"A","b","o","u","t">>,
    <<"O","t","h","e","r">>,
    <<"M","o","s","t">>,
    <<"T","h","a","t">>,
    <<"T","h","i","s">>,
    <<"T","h","e","s","e">>,
    <<"T","h","o","s","e">>,
    <<"S","u","c","h">> }

\* [x for x in xs if keep(x)] for the filter of extract_named_items
RECURSIVE FilterNames(_)
FilterNames(names) ==
  IF names = <<>> THEN <<>>
  ELSE LET rest == FilterNames(Tail(names)) IN
       IF Head(names) \notin stop_phrases /\ Len(Head(names)) > 2
       THEN <<Head(names)>> \o rest
       ELSE rest

\* extract_named_items(question)['potential_names']
extract_named_items(q) ==
  LET long_phrases == FindAllLong(q, 1)
      question_without_long == ReplaceAll(q, long_phrases)
      short_phrases == FindAllShort(question_without_long, 1)
      quoted_names == FindAllQuoted(q, 1)
  IN FilterNames(long_phrases \o short_phrases \o quoted_names)

(***************************************************************************)
(* Program constants.                                                      *)
(***************************************************************************)
\* ask: n_results=30 for hybrid_category_search and vector_search
NResults == 30

\* hybrid_category_search: n_results=1000 neighbours asked of the index
IndexWindow == 1000

\* format_vector_results: a list of at most 15 items is serialized whole
FormatAllUpTo == 15

\* format_vector_results: otherwise the first 10 items
FormatCap == 10

\* conversation_history[-3:]
HistoryWindow == 3

\* answer[:200] + "..."
SummaryLimit == 200

(***************************************************************************)
(* Small helpers.                                                          *)
(***************************************************************************)
Range(s) == {s[i] : i \in DOMAIN s}

\* values of a variable no call has written yet
Unset == "unset"

UnsetRecord == [type |-> "unset"]

UnsetNames == << <<"?">> >>

\* Python values of ask's first component, tagged with their type
NoneValue == [pytype |-> "NoneType"]

StrValue(text) == [pytype |-> "str", text |-> text]

DictValue(type, content) == [pytype |-> "dict", type |-> type, content |-> content]

Min(a, b) == IF a <= b THEN a ELSE b

\* s[:n]
Take(s, n) == SubSeq(s, 1, Min(n, Len(s)))

\* s[-n:]
Last(s, n) == SubSeq(s, Len(s) - Min(n, Len(s)) + 1, Len(s))

Reverse(s) == [i \in 1..Len(s) |-> s[Len(s) + 1 - i]]

DigitChars == <<"0","1","2","3","4","5","6","7","8","9">>

RECURSIVE str(_)
\* str(n) of a non-negative integer id
str(n) ==
  IF n < 10 THEN <<DigitChars[n + 1]>>
  ELSE str(n \div 10) \o <<DigitChars[(n % 10) + 1]>>

RECURSIVE IntOf(_)
\* the integer MySQL reads from a literal of the IN (...) list
IntOf(ds) ==
  IF ds = <<>> THEN 0
  ELSE 10 * IntOf(SubSeq(ds, 1, Len(ds) - 1))
       + (CHOOSE k \in 0..9 : DigitChars[k + 1] = ds[Len(ds)])

(***************************************************************************)
(* The relational store: the six views the engine reads, as row lists in   *)
(* the order the server returns them, and the weapon_mechanics join table. *)
(* v_perks_all_ranks and v_legendary_perks_all_ranks hold one row per      *)
(* rank; the other views hold one row per id.                              *)
(***************************************************************************)
GAUSS_SHOTGUN == <<"G","a","u","s","s"," ","S","h","o","t","g","u","n">>

THE_FIXER == <<"T","h","e"," ","F","i","x","e","r">>

MINIGUN == <<"M","i","n","i","g","u","n">>

LOCK_AND_LOAD == <<"L","o","c","k"," ","a","n","d"," ","L","o","a","d">>

BLOODY_MESS == <<"B","l","o","o","d","y"," ","M","e","s","s">>

COMBAT_ARMOR == <<"C","o","m","b","a","t"," ","A","r","m","o","r">>

MASTER_INFILTRATOR == <<"M","a","s","t","e","r"," ","I","n","f","i","l","t","r","a","t","o","r">>

MARSUPIAL == <<"M","a","r","s","u","p","i","a","l">>

STIMPAK == <<"S","t","i","m","p","a","k">>

CLASS_SHOTGUN == <<"S","h","o","t","g","u","n">>

CLASS_RIFLE == <<"R","i","f","l","e">>

CLASS_HEAVY_GUN == <<"H","e","a","v","y"," ","G","u","n">>

\* the two weapons outside the shotgun class
FixerRow == [id |-> 101, weapon_name |-> THE_FIXER, weapon_class |-> CLASS_RIFLE]

MinigunRow == [id |-> 102, weapon_name |-> MINIGUN, weapon_class |-> CLASS_HEAVY_GUN]

ShotgunName(i) ==
  IF i = 1 THEN GAUSS_SHOTGUN
  ELSE <<"S","h","o","t","g","u","n"," ">> \o str(i)

ShotgunRow(i) ==
  [id |-> i, weapon_name |-> ShotgunName(i), weapon_class |-> CLASS_SHOTGUN]

WeaponView(n) ==
  [i \in 1..n |-> ShotgunRow(i)]
  \o <<FixerRow, MinigunRow>>

PerkView ==
  << [perk_id |-> 1, perk_name |-> LOCK_AND_LOAD, rank |-> 1],
     [perk_id |-> 1, perk_name |-> LOCK_AND_LOAD, rank |-> 2],
     [perk_id |-> 2, perk_name |-> BLOODY_MESS, rank |-> 1] >>

LegendaryPerkView ==
  << [legendary_perk_id |-> 1, perk_name |-> MASTER_INFILTRATOR, rank |-> 1],
     [legendary_perk_id |-> 1, perk_name |-> MASTER_INFILTRATOR, rank |-> 2] >>

Views(n, order) ==
  [weapons |-> IF order = "asc" THEN WeaponView(n) ELSE Reverse(WeaponView(n)),
   weapon_mechanics |-> << [weapon_id |-> 1, name |-> "Charge"],
                           [weapon_id |-> 1, name |-> "Explosive"],
                           [weapon_id |-> MinigunRow.id, name |-> "Spin-up"] >>,
   armor |-> << [id |-> 1, name |-> COMBAT_ARMOR] >>,
   perks |-> PerkView,
   legendary_perks |-> LegendaryPerkView,
   mutations |-> << [mutation_id |-> 1, mutation_name |-> MARSUPIAL] >>,
   consumables |-> << [consumable_id |-> 1, consumable_name |-> STIMPAK] >>]

\* sizes of the shotgun class: empty, small, just over the formatter's
\* threshold, just over n_results
ShotgunCounts == {0, 1, 2, FormatAllUpTo + 1, NResults + 1}

Databases == {Views(n, o) : n \in ShotgunCounts, o \in {"asc", "desc"}}

Variants ==
  <<"weapons", "armor", "perks", "legendary_perks", "mutations", "consumables">>

\* the literal {'weapons': [], 'armor': [], ...}
EmptyEnriched == [t \in Range(Variants) |-> <<>>]

(***************************************************************************)
(* The SQL statements of the engine, evaluated on the views.               *)
(***************************************************************************)
\* value LIKE '%text%' under the server's case-insensitive collation
Like(pattern, value) ==
  Contains(lower(SubSeq(pattern, 2, Len(pattern) - 1)), lower(value))

\* name LIKE '%n1%' OR name LIKE '%n2%' ...
LikeAny(names, value) ==
  \E i \in DOMAIN names : Contains(lower(names[i]), lower(value))

\* LEFT JOIN weapon_mechanics ... GROUP_CONCAT(...) AS mechanics GROUP BY wpv.id, ...
WithMechanics(d, w) ==
  LET mine == SelectSeq(d.weapon_mechanics, LAMBDA m : m.weapon_id = w.id)
  IN [id |-> w.id, weapon_name |-> w.weapon_name, weapon_class |-> w.weapon_class,
      mechanics |-> [i \in 1..Len(mine) |-> mine[i].name]]

\* ... WHERE wpv.weapon_class LIKE '{class_pattern}' GROUP BY ...
WeaponsByClass(d, class_pattern) ==
  LET rows == SelectSeq(d.weapons, LAMBDA w : Like(class_pattern, w.weapon_class))
  IN [i \in 1..Len(rows) |-> WithMechanics(d, rows[i])]

\* the set of integers of ','.join(ids) inside IN (...)
InList(ids) == {IntOf(ids[i]) : i \in DOMAIN ids}

\* ... WHERE wpv.id IN ({ids}) GROUP BY ...
WeaponsByIds(d, ids) ==
  LET list == InList(ids)
      rows == SelectSeq(d.weapons, LAMBDA w : w.id \in list)
  IN [i \in 1..Len(rows) |-> WithMechanics(d, rows[i])]

ArmorByIds(d, ids) ==
  LET list == InList(ids) IN SelectSeq(d.armor, LAMBDA r : r.id \in list)

\* a query that keeps the first rank of each perk
PerksByIdsFirstRank(d, ids) ==
  LET list == InList(ids)
  IN SelectSeq(d.perks, LAMBDA r : r.perk_id \in list /\ r.rank = 1)

PerksByIds(d, ids) ==
  LET list == InList(ids) IN SelectSeq(d.perks, LAMBDA r : r.perk_id \in list)

LegendaryPerksByIds(d, ids) ==
  LET list == InList(ids)
  IN SelectSeq(d.legendary_perks, LAMBDA r : r.legendary_perk_id \in list)

MutationsByIds(d, ids) ==
  LET list == InList(ids)
  IN SelectSeq(d.mutations, LAMBDA r : r.mutation_id \in list)

ConsumablesByIds(d, ids) ==
  LET list == InList(ids)
  IN SelectSeq(d.consumables, LAMBDA r : r.consumable_id \in list)

(***************************************************************************)
(* The vector index.  A document carries the metadata populate_batch       *)
(* stores: type, id (a str) and, for the perk types, rank.  For one        *)
(* question the index ranks its documents by distance; a query returns     *)
(* the first n_results documents that pass the `where` filter.             *)
(***************************************************************************)
Doc(type, id) == [type |-> type, id |-> str(id)]

RankDoc(type, id, rank) == [type |-> type, id |-> str(id), rank |-> str(rank)]

\* documents of the types populate_all stores, one of them (weapon 999)
\* left behind by a row that is no longer in the store; weapon_mod stands
\* for the types enrich_with_sql has no branch for, and 'unknown' is what
\* it reads from a document whose metadata holds no 'type'
SomeDocs ==
  { Doc("weapon", 1), Doc("weapon", 101), Doc("weapon", 999),
    RankDoc("perk", 1, 1), RankDoc("perk", 1, 2),
    RankDoc("legendary_perk", 1, 1),
    Doc("armor", 1), Doc("mutation", 1), Doc("consumable", 1),
    Doc("weapon_mod", 1), Doc("unknown", 1) }

\* number of documents of SomeDocs at the head of a ranking
MaxHead == 1

\* the weapon documents 2..n in ascending id order
WeaponRun(n) == [i \in 1..(IF n >= 2 THEN n - 1 ELSE 0) |-> Doc("weapon", i + 1)]

Injective(s) == \A i, j \in DOMAIN s : s[i] = s[j] => i = j

Heads ==
  {h \in UNION {[1..n -> SomeDocs] : n \in 0..MaxHead} : Injective(h)}

\* the shotgun documents behind the head: none, all of 2..n either way
\* round, or all but the last
Tails(d) ==
  LET n == Len(d.weapons) - 2
  IN {<<>>, WeaponRun(n), Reverse(WeaponRun(n)), WeaponRun(n - 1)}

Rankings(d) == {h \o t : h \in Heads, t \in Tails(d)}

\* collection.query(n_results=n, where={"type": type})['metadatas'][0]
QueryWhere(ranking, n, type) ==
  Take(SelectSeq(ranking, LAMBDA m : m.type = type), n)

\* collection.query(n_results=n)['metadatas'][0]
Query(ranking, n) == Take(ranking, n)

(***************************************************************************)
(* The collaborators' behaviour during one call: which of them answer,     *)
(* and what they answer.                                                   *)
(***************************************************************************)
NoCalls == [sql |-> 0, embed |-> 0, vector |-> 0, llm |-> 0]

Raised(c) == [raised |-> TRUE, calls |-> c]

AddCalls(a, b) ==
  [sql |-> a.sql + b.sql, embed |-> a.embed + b.embed,
   vector |-> a.vector + b.vector, llm |-> a.llm + b.llm]

(***************************************************************************)
(* hybrid_category_search                                                  *)
(***************************************************************************)
\* a ranking that truncates to n_results after the remainder is computed
RankWeaponsTruncateLate(all_weapons, metadatas, n_results) ==
  LET weapon_ids == [i \in 1..Len(all_weapons) |-> str(all_weapons[i].id)]
      weapon_id_set == Range(weapon_ids)
      matching == SelectSeq(metadatas, LAMBDA m : m.id \in weapon_id_set)
      ranked_ids == [i \in 1..Len(matching) |-> matching[i].id]
      id_to_weapon(wid) ==
        all_weapons[CHOOSE i \in DOMAIN all_weapons :
                      /\ weapon_ids[i] = wid
                      /\ \A j \in DOMAIN all_weapons : weapon_ids[j] = wid => j <= i]
      kept == Take(SelectSeq(ranked_ids, LAMBDA wid : wid \in weapon_id_set), n_results)
      ranked == [i \in 1..Len(kept) |-> id_to_weapon(kept[i])]
      remaining ==
        SelectSeq(all_weapons, LAMBDA w : str(w.id) \notin Range(ranked_ids))
  IN ranked \o remaining

\* a ranking that lists the weapons the index did not rank first
RankWeaponsRemainderFirst(all_weapons, metadatas, n_results) ==
  LET weapon_ids == [i \in 1..Len(all_weapons) |-> str(all_weapons[i].id)]
      weapon_id_set == Range(weapon_ids)
      matching == SelectSeq(metadatas, LAMBDA m : m.id \in weapon_id_set)
      ranked_ids == Take([i \in 1..Len(matching) |-> matching[i].id], n_results)
      id_to_weapon(wid) ==
        all_weapons[CHOOSE i \in DOMAIN all_weapons :
                      /\ weapon_ids[i] = wid
                      /\ \A j \in DOMAIN all_weapons : weapon_ids[j] = wid => j <= i]
      kept == SelectSeq(ranked_ids, LAMBDA wid : wid \in weapon_id_set)
      ranked == [i \in 1..Len(kept) |-> id_to_weapon(kept[i])]
      remaining ==
        SelectSeq(all_weapons, LAMBDA w : str(w.id) \notin Range(ranked_ids))
  IN remaining \o ranked

\* a ranking whose remainder compares the rows' integer ids with the ranked
\* ids, which are strings: no row is ever left out of the remainder
RankWeaponsIntIds(all_weapons, metadatas, n_results) ==
  LET weapon_ids == [i \in 1..Len(all_weapons) |-> str(all_weapons[i].id)]
      weapon_id_set == Range(weapon_ids)
      matching == SelectSeq(metadatas, LAMBDA m : m.id \in weapon_id_set)
      ranked_ids == Take([i \in 1..Len(matching) |-> matching[i].id], n_results)
      id_to_weapon(wid) ==
        all_weapons[CHOOSE i \in DOMAIN all_weapons :
                      /\ weapon_ids[i] = wid
                      /\ \A j \in DOMAIN all_weapons : weapon_ids[j] = wid => j <= i]
      kept == SelectSeq(ranked_ids, LAMBDA wid : wid \in weapon_id_set)
      ranked == [i \in 1..Len(kept) |-> id_to_weapon(kept[i])]
  IN ranked \o all_weapons

RankWeapons(all_weapons, metadatas, n_results) ==
  LET weapon_ids == [i \in 1..Len(all_weapons) |-> str(all_weapons[i].id)]
      weapon_id_set == Range(weapon_ids)
      matching == SelectSeq(metadatas, LAMBDA m : m.id \in weapon_id_set)
      ranked_ids == Take([i \in 1..Len(matching) |-> matching[i].id], n_results)
      \* the dict comprehension keeps the last row of an id
      id_to_weapon(wid) ==
        all_weapons[CHOOSE i \in DOMAIN all_weapons :
                      /\ weapon_ids[i] = wid
                      /\ \A j \in DOMAIN all_weapons : weapon_ids[j] = wid => j <= i]
      kept == SelectSeq(ranked_ids, LAMBDA wid : wid \in weapon_id_set)
      ranked == [i \in 1..Len(kept) |-> id_to_weapon(kept[i])]
      placed == Range(ranked_ids)
      remaining == SelectSeq(all_weapons, LAMBDA w : str(w.id) \notin placed)
  IN ranked \o remaining

\* a search that queries the index once for every pre-filtered weapon
hybrid_category_search_per_weapon(q, filter, n_results, d, e) ==
  IF filter.type # "weapon"
  THEN [raised |-> FALSE, calls |-> NoCalls, enriched |-> EmptyEnriched]
  ELSE IF ~e.db_ok THEN Raised([NoCalls EXCEPT !.sql = 1])
  ELSE
    LET all_weapons == WeaponsByClass(d, filter.class_pattern) IN
    IF all_weapons = <<>>
    THEN [raised |-> FALSE, calls |-> [NoCalls EXCEPT !.sql = 1],
          enriched |-> EmptyEnriched]
    ELSE IF ~e.embed_ok THEN Raised([NoCalls EXCEPT !.sql = 1, !.embed = 1])
    ELSE IF ~e.vector_ok
    THEN Raised([NoCalls EXCEPT !.sql = 1, !.embed = 1, !.vector = Len(all_weapons)])
    ELSE
      LET metadatas == QueryWhere(e.ranking, IndexWindow, "weapon")
      IN [raised |-> FALSE,
          calls |-> [NoCalls EXCEPT !.sql = 1, !.embed = 1, !.vector = Len(all_weapons)],
          enriched |-> [EmptyEnriched EXCEPT
                          !.weapons = RankWeapons(all_weapons, metadatas, n_results)]]

\* the result of a call is [raised, calls] when it raises and
\* [raised, calls, enriched] when it returns
hybrid_category_search(q, filter, n_results, d, e) ==
  IF filter.type # "weapon"
  THEN [raised |-> FALSE, calls |-> NoCalls, enriched |-> EmptyEnriched]
  ELSE IF ~e.db_ok THEN Raised([NoCalls EXCEPT !.sql = 1])
  ELSE
    LET all_weapons == WeaponsByClass(d, filter.class_pattern) IN
    IF all_weapons = <<>>
    THEN [raised |-> FALSE, calls |-> [NoCalls EXCEPT !.sql = 1],
          enriched |-> EmptyEnriched]
    ELSE IF ~e.embed_ok THEN Raised([NoCalls EXCEPT !.sql = 1, !.embed = 1])
    ELSE IF ~e.vector_ok
    THEN Raised([NoCalls EXCEPT !.sql = 1, !.embed = 1, !.vector = 1])
    ELSE
      LET metadatas == QueryWhere(e.ranking, IndexWindow, "weapon")
      IN [raised |-> FALSE,
          calls |-> [NoCalls EXCEPT !.sql = 1, !.embed = 1, !.vector = 1],
          enriched |-> [EmptyEnriched EXCEPT
                          !.weapons = RankWeapons(all_weapons, metadatas, n_results)]]

(***************************************************************************)
(* fetch_named_items_from_sql and enrich_with_sql                          *)
(***************************************************************************)
RECURSIVE RowsPerName(_, _, _)
\* the rows of one query per name, one result after the other
RowsPerName(item_names, rows, column) ==
  IF item_names = <<>> THEN <<>>
  ELSE SelectSeq(rows, LAMBDA r : LikeAny(<<Head(item_names)>>, r[column]))
       \o RowsPerName(Tail(item_names), rows, column)

\* a fetch that queries each view once per name and concatenates the rows
fetch_named_items_per_name(item_names, d, e) ==
  IF item_names = <<>>
  THEN [raised |-> FALSE, calls |-> NoCalls, enriched |-> EmptyEnriched]
  ELSE IF ~e.db_ok THEN Raised([NoCalls EXCEPT !.sql = 1])
  ELSE
    [raised |-> FALSE,
     calls |-> [NoCalls EXCEPT !.sql = 6 * Len(item_names)],
     enriched |->
       [weapons |-> RowsPerName(item_names, d.weapons, "weapon_name"),
        armor |-> RowsPerName(item_names, d.armor, "name"),
        perks |-> RowsPerName(item_names, d.perks, "perk_name"),
        legendary_perks |-> RowsPerName(item_names, d.legendary_perks, "perk_name"),
        mutations |-> RowsPerName(item_names, d.mutations, "mutation_name"),
        consumables |-> RowsPerName(item_names, d.consumables, "consumable_name")]]

fetch_named_items_from_sql(item_names, d, e) ==
  IF item_names = <<>>
  THEN [raised |-> FALSE, calls |-> NoCalls, enriched |-> EmptyEnriched]
  ELSE IF ~e.db_ok THEN Raised([NoCalls EXCEPT !.sql = 1])
  ELSE
    [raised |-> FALSE,
     calls |-> [NoCalls EXCEPT !.sql = 6],
     enriched |->
       [weapons |-> SelectSeq(d.weapons, LAMBDA r : LikeAny(item_names, r.weapon_name)),
        armor |-> SelectSeq(d.armor, LAMBDA r : LikeAny(item_names, r.name)),
        perks |-> SelectSeq(d.perks, LAMBDA r : LikeAny(item_names, r.perk_name)),
        legendary_perks |->
          SelectSeq(d.legendary_perks, LAMBDA r : LikeAny(item_names, r.perk_name)),
        mutations |->
          SelectSeq(d.mutations, LAMBDA r : LikeAny(item_names, r.mutation_name)),
        consumables |->
          SelectSeq(d.consumables, LAMBDA r : LikeAny(item_names, r.consumable_name))]]

\* a grouping that counts the hits on weapon mods as hits on weapons
IdsOfTypeWithMods(metadatas, type) ==
  LET hits == SelectSeq(metadatas,
                        LAMBDA m : m.type = type
                                   \/ (type = "weapon" /\ m.type = "weapon_mod"))
  IN [i \in 1..Len(hits) |-> hits[i].id]

\* items_by_type[type], the ids of the hits of one type in hit order
IdsOfType(metadatas, type) ==
  LET hits == SelectSeq(metadatas, LAMBDA m : m.type = type)
  IN [i \in 1..Len(hits) |-> hits[i].id]

\* the types enrich_with_sql queries, with the variant each fills
QueriedTypes ==
  <<"weapon", "armor", "perk", "legendary_perk", "mutation", "consumable">>

id_field_map ==
  [weapons |-> "id", armor |-> "id", perks |-> "perk_id",
   legendary_perks |-> "legendary_perk_id", mutations |-> "mutation_id",
   consumables |-> "consumable_id"]

\* lines 442-493: one query per type present among the hits
ByIds(metadatas, d) ==
  LET ids(type) == IdsOfType(metadatas, type)
      has(type) == ids(type) # <<>>
  IN [weapons |-> IF has("weapon") THEN WeaponsByIds(d, ids("weapon")) ELSE <<>>,
      armor |-> IF has("armor") THEN ArmorByIds(d, ids("armor")) ELSE <<>>,
      perks |-> IF has("perk") THEN PerksByIds(d, ids("perk")) ELSE <<>>,
      legendary_perks |->
        IF has("legendary_perk")
        THEN LegendaryPerksByIds(d, ids("legendary_perk")) ELSE <<>>,
      mutations |->
        IF has("mutation") THEN MutationsByIds(d, ids("mutation")) ELSE <<>>,
      consumables |->
        IF has("consumable") THEN ConsumablesByIds(d, ids("consumable")) ELSE <<>>]

\* a merge that appends every named row, already present or not
MergeNamedAll(items, named, id_field) ==
  items \o named

\* lines 497-518: existing_ids is computed once per variant, before the loop
MergeNamed(items, named, id_field) ==
  LET existing_ids == {items[i][id_field] : i \in DOMAIN items}
  IN items \o SelectSeq(named, LAMBDA r : r[id_field] \notin existing_ids)

enrich_with_sql(metadatas, named_items, d, e) ==
  LET present == {i \in DOMAIN QueriedTypes : IdsOfType(metadatas, QueriedTypes[i]) # <<>>}
      c == [NoCalls EXCEPT !.sql = Cardinality(present)]
  IN IF present # {} /\ ~e.db_ok THEN Raised([NoCalls EXCEPT !.sql = 1])
     ELSE
       LET fetched == ByIds(metadatas, d)
       IN [raised |-> FALSE,
           calls |-> c,
           enriched |->
             IF named_items = None THEN fetched
             ELSE [t \in Range(Variants) |->
                     IF named_items[t] # <<>>
                     THEN MergeNamed(fetched[t], named_items[t], id_field_map[t])
                     ELSE fetched[t]]]

(***************************************************************************)
(* format_vector_results                                                   *)
(***************************************************************************)
\* a limit that caps category searches like any other
LimitCapped(items, is_category_search) ==
  IF Len(items) <= FormatAllUpTo THEN Len(items) ELSE FormatCap

\* a limit whose threshold leaves out a list of exactly 15 items
LimitBelowThreshold(items, is_category_search) ==
  IF is_category_search \/ Len(items) < FormatAllUpTo THEN Len(items) ELSE FormatCap

\* limit = len(items) if (is_category_search or len(items) <= 15) else 10
Limit(items, is_category_search) ==
  IF is_category_search \/ Len(items) <= FormatAllUpTo THEN Len(items) ELSE FormatCap

RECURSIVE ContextParts(_, _, _)
\* context_parts: per non-empty variant a header, then str(item) of the
\* first `limit` items
ContextParts(enriched_data, is_category_search, types) ==
  IF types = <<>> THEN <<>>
  ELSE
    LET items == enriched_data[Head(types)]
        rest == ContextParts(enriched_data, is_category_search, Tail(types))
    IN IF items = <<>> THEN rest
       ELSE <<[header |-> Head(types)]>>
            \o [i \in 1..Limit(items, is_category_search) |->
                  [item_type |-> Head(types), item |-> items[i]]]
            \o rest

\* the "Q: ... A: ..." lines of the last three turns
Preamble(history) ==
  LET recent == Last(history, HistoryWindow)
  IN [i \in 1..Len(recent) |->
        [question |-> recent[i].question, summary |-> recent[i].summary]]

\* a summary that also cuts an answer of exactly 200 characters
SummaryFromLimit(text) ==
  IF Len(text) >= SummaryLimit
  THEN Take(text, SummaryLimit) \o <<".", ".", ".">>
  ELSE text

\* answer[:200] + "..." if len(answer) > 200 else answer
Summary(text) ==
  IF Len(text) > SummaryLimit
  THEN Take(text, SummaryLimit) \o <<".", ".", ".">>
  ELSE text

\* a formatter that puts the new turn in front of the history
format_vector_results_prepend(q, enriched_data, is_category_search, history, e) ==
  LET p == [question |-> q,
            history |-> Preamble(history),
            context |-> ContextParts(enriched_data, is_category_search, Variants)]
      c == [NoCalls EXCEPT !.llm = 1]
  IN IF ~e.llm_ok
     THEN [raised |-> TRUE, calls |-> c, prompt |-> p, history |-> history]
     ELSE [raised |-> FALSE, calls |-> c, prompt |-> p,
           history |-> <<[question |-> q, method |-> "vector",
                          summary |-> Summary(e.llm_text)]>> \o history,
           answer |-> e.llm_text]

\* a formatter that calls the generative model a second time when the
\* first call fails
format_vector_results_retry(q, enriched_data, is_category_search, history, e) ==
  LET p == [question |-> q,
            history |-> Preamble(history),
            context |-> ContextParts(enriched_data, is_category_search, Variants)]
  IN IF ~e.llm_ok
     THEN [raised |-> TRUE, calls |-> [NoCalls EXCEPT !.llm = 2], prompt |-> p,
           history |-> history]
     ELSE [raised |-> FALSE, calls |-> [NoCalls EXCEPT !.llm = 1], prompt |-> p,
           history |-> Append(history,
                              [question |-> q, method |-> "vector",
                               summary |-> Summary(e.llm_text)]),
           answer |-> e.llm_text]

\* returns [raised, calls, prompt, history] and, when it returns, answer
format_vector_results(q, enriched_data, is_category_search, history, e) ==
  LET p == [question |-> q,
            history |-> Preamble(history),
            context |-> ContextParts(enriched_data, is_category_search, Variants)]
      c == [NoCalls EXCEPT !.llm = 1]
  IN IF ~e.llm_ok
     THEN [raised |-> TRUE, calls |-> c, prompt |-> p, history |-> history]
     ELSE [raised |-> FALSE, calls |-> c, prompt |-> p,
           history |-> Append(history,
                              [question |-> q, method |-> "vector",
                               summary |-> Summary(e.llm_text)]),
           answer |-> e.llm_text]

(***************************************************************************)
(* The collaborators during one call of ask.  At most one of them fails;   *)
(* llm_fail is the number of the generative-model call that raises (the    *)
(* conceptual routes make one such call, the exact path up to three).      *)
(***************************************************************************)
\* the reply of the generative model: a text of n characters
AnswerText(n) == [i \in 1..n |-> "a"]

\* FalloutRAG.classify_intent: the classification parsed from the reply
Classifications == {"SPECIFIC", "VAGUE_BUILD"}

\* the query the generative model writes for the exact path: one the server
\* rejects, and two SELECTs on v_weapons_with_perks by name
GeneratedQueries ==
  { [kind |-> "select", valid |-> FALSE, name |-> <<>>],
    [kind |-> "select", valid |-> TRUE, name |-> GAUSS_SHOTGUN],
    [kind |-> "select", valid |-> TRUE, name |-> MARSUPIAL] }

\* nothing in FalloutRAG.ask restricts the reply to a SELECT: the statements
\* DELETE FROM weapon_mechanics and TRUNCATE TABLE weapon_mechanics
GeneratedWrites ==
  { [kind |-> "delete", valid |-> TRUE, name |-> <<>>],
    [kind |-> "truncate", valid |-> TRUE, name |-> <<>>] }

NoQuery == [kind |-> "select", valid |-> FALSE, name |-> <<>>]

\* no query was executed during the call
NotRun == [status |-> "none", sql |-> NoQuery]

Faults == {"none", "db", "embed", "vector", "llm1", "llm2", "llm3"}

Env(fault, ranking, text, classification, sql) ==
  [db_ok |-> fault # "db",
   embed_ok |-> fault # "embed",
   vector_ok |-> fault # "vector",
   llm_ok |-> fault # "llm1",
   llm_fail |-> CASE fault = "llm1" -> 1 [] fault = "llm2" -> 2
                  [] fault = "llm3" -> 3 [] OTHER -> 0,
   ranking |-> ranking,
   llm_text |-> text,
   classification |-> classification,
   sql |-> sql,
   no_result |-> "raises"]

\* cursor.fetchall() after a statement without a result set raises
\* InterfaceError or returns [], depending on the connector's version
NoResultSet == {"raises", "empty"}

(***************************************************************************)
(* FalloutRAG (rag/query_engine.py): the exact path                        *)
(***************************************************************************)
\* the store once the server has executed the statement on a connection
\* that is closed or dropped without commit: a DELETE is rolled back, a
\* TRUNCATE TABLE has committed itself
Executed(d, sql) ==
  IF sql.kind = "truncate" THEN [d EXCEPT !.weapon_mechanics = <<>>] ELSE d

\* query_database: connect, execute, fetchall, close (no commit)
query_database(d, sql, e) ==
  IF ~e.db_ok \/ ~sql.valid THEN [raised |-> TRUE, rows |-> <<>>, store |-> d]
  ELSE IF sql.kind = "select"
  THEN [raised |-> FALSE,
        rows |-> SelectSeq(d.weapons, LAMBDA r : LikeAny(<<sql.name>>, r.weapon_name)),
        store |-> d]
  ELSE [raised |-> e.no_result = "raises", rows |-> <<>>,
        store |-> Executed(d, sql)]

\* a reply that reports an empty result as an error
NoDataReplyAsError(sql_query) ==
  DictValue("error",
            [kind |-> "No data found in the database for this query.",
             sql |-> sql_query])

\* the dict returned when the query finds no row
NoDataReply(sql_query) ==
  DictValue("answer",
            [kind |-> "No data found in the database for this query.",
             sql |-> sql_query])

\* FalloutRAG.ask(question): [raised, calls, prompt, history] and, when it
\* returns, result: the dict it returns
sql_rag_ask(q, d, history, e) ==
  IF e.llm_fail = 1
  THEN [raised |-> TRUE, calls |-> [NoCalls EXCEPT !.llm = 1],
        prompt |-> None, history |-> history, run |-> NotRun,
        store |-> d]
  ELSE IF e.classification \in {"VAGUE_CRITERIA", "VAGUE_BUILD", "AMBIGUOUS"}
  THEN [raised |-> FALSE, calls |-> [NoCalls EXCEPT !.llm = 1],
        prompt |-> None, history |-> history, run |-> NotRun,
        store |-> d,
        result |-> DictValue("clarification",
                             [kind |-> "questions",
                              classification |-> e.classification])]
  ELSE
    LET sql_prompt == [question |-> q, history |-> Preamble(history), context |-> <<>>]
    IN IF e.llm_fail = 2
       THEN [raised |-> TRUE, calls |-> [NoCalls EXCEPT !.llm = 2],
             prompt |-> sql_prompt, history |-> history, run |-> NotRun,
             store |-> d]
       ELSE
         LET sql_query == e.sql
             run == query_database(d, sql_query, e)
             c == [NoCalls EXCEPT !.llm = 2, !.sql = 1]
         IN IF run.raised
            THEN [raised |-> FALSE, calls |-> c, prompt |-> sql_prompt,
                  history |-> history,
                  run |-> [status |-> "failed", sql |-> sql_query],
                  store |-> run.store,
                  result |-> DictValue("error",
                                       [kind |-> "Error executing query",
                                        sql |-> sql_query])]
            ELSE IF run.rows = <<>>
            THEN [raised |-> FALSE, calls |-> c, prompt |-> sql_prompt,
                  history |-> history,
                  run |-> [status |-> "empty", sql |-> sql_query],
                  store |-> run.store,
                  result |-> NoDataReply(sql_query)]
            ELSE IF e.llm_fail = 3
            THEN [raised |-> TRUE, calls |-> [c EXCEPT !.llm = 3],
                  prompt |-> sql_prompt, history |-> history,
                  run |-> [status |-> "rows", sql |-> sql_query],
                  store |-> run.store]
            ELSE [raised |-> FALSE, calls |-> [c EXCEPT !.llm = 3],
                  prompt |-> sql_prompt,
                  run |-> [status |-> "rows", sql |-> sql_query],
                  store |-> run.store,
                  history |-> Append(history,
                                     [question |-> q, sql |-> sql_query,
                                      summary |-> Summary(e.llm_text)]),
                  result |-> DictValue("answer",
                                       [kind |-> "final_answer",
                                        text |-> e.llm_text])]

(***************************************************************************)
(* HybridFalloutRAG.ask                                                    *)
(***************************************************************************)
\* a search that falls back to no hits when a collaborator is unavailable
vector_search_degraded(q, n_results, e) ==
  IF ~e.embed_ok
  THEN [raised |-> FALSE, calls |-> [NoCalls EXCEPT !.embed = 1], metadatas |-> <<>>]
  ELSE IF ~e.vector_ok
  THEN [raised |-> FALSE, calls |-> [NoCalls EXCEPT !.embed = 1, !.vector = 1],
        metadatas |-> <<>>]
  ELSE [raised |-> FALSE, calls |-> [NoCalls EXCEPT !.embed = 1, !.vector = 1],
        metadatas |-> Query(e.ranking, n_results)]

\* vector_search(question, n_results)['metadatas'][0]
vector_search(q, n_results, e) ==
  IF ~e.embed_ok THEN Raised([NoCalls EXCEPT !.embed = 1])
  ELSE IF ~e.vector_ok THEN Raised([NoCalls EXCEPT !.embed = 1, !.vector = 1])
  ELSE [raised |-> FALSE, calls |-> [NoCalls EXCEPT !.embed = 1, !.vector = 1],
        metadatas |-> Query(e.ranking, n_results)]

\* what a call leaves behind when it raises before a prompt is built
Failed(base, c) ==
  [base EXCEPT !.outcome = "raised", !.calls = c]

\* the call's end once format_vector_results has run
Formatted(base, c, t, label) ==
  [base EXCEPT
     !.outcome = IF t.raised THEN "raised" ELSE "returned",
     !.calls = AddCalls(c, t.calls),
     !.prompt = t.prompt,
     !.conversation_history = t.history,
     !.answer = IF t.raised THEN NoneValue ELSE StrValue(t.answer),
     !.method = IF t.raised THEN "None" ELSE label]

\* a pair whose label tells an answer from a clarification or an error
ExactRouteByReply(base, r) ==
  [base EXCEPT
     !.outcome = IF r.raised THEN "raised" ELSE "returned",
     !.calls = r.calls,
     !.sql_run = r.run,
     !.prompt = r.prompt,
     !.sql_history = r.history,
     !.db = r.store,
     !.answer = IF r.raised THEN NoneValue ELSE r.result,
     !.method = IF r.raised THEN "None"
                ELSE IF r.result.type = "answer" THEN "SQL" ELSE "None"]

\* lines 627-628: the pair built from the reply r of sql_rag.ask
ExactRoute(base, r) ==
  [base EXCEPT
     !.outcome = IF r.raised THEN "raised" ELSE "returned",
     !.calls = r.calls,
     !.sql_run = r.run,
     !.prompt = r.prompt,
     !.sql_history = r.history,
     !.db = r.store,
     !.answer = IF r.raised THEN NoneValue ELSE r.result,
     !.method = IF r.raised THEN "None" ELSE "SQL"]

\* lines 640-645: s is the result of hybrid_category_search
CategoryRoute(b1, q, s, history, e) ==
  IF s.raised THEN Failed(b1, s.calls)
  ELSE Formatted([b1 EXCEPT !.enriched = s.enriched], s.calls,
                 format_vector_results(q, s.enriched, TRUE, history, e),
                 "HYBRID")

\* lines 672-674: en is the result of enrich_with_sql, c the calls before it
FormatEnriched(b2, q, c, en, history, e) ==
  IF en.raised THEN Failed(b2, AddCalls(c, en.calls))
  ELSE Formatted([b2 EXCEPT !.enriched = en.enriched], AddCalls(c, en.calls),
                 format_vector_results(q, en.enriched, FALSE, history, e),
                 "VECTOR+SQL")

\* lines 666-669: v is the result of vector_search, c1 the calls before it
EnrichHits(b2, q, c1, named_items_dict, v, d, history, e) ==
  IF v.raised THEN Failed(b2, AddCalls(c1, v.calls))
  ELSE FormatEnriched(b2, q, AddCalls(c1, v.calls),
                      enrich_with_sql(v.metadatas, named_items_dict, d, e),
                      history, e)

\* lines 655-666: n is the result of fetch_named_items_from_sql, called
\* only when names were extracted
SearchWithNames(b2, q, names, n, d, history, e) ==
  IF names # <<>> /\ n.raised THEN Failed(b2, n.calls)
  ELSE EnrichHits(b2, q,
                  IF names # <<>> THEN n.calls ELSE NoCalls,
                  IF names # <<>> THEN n.enriched ELSE None,
                  vector_search(q, NResults, e), d, history, e)

\* lines 651-674: the plain route, names being extract_named_items(question)
PlainRoute(b1, q, names, d, history, e) ==
  SearchWithNames([b1 EXCEPT !.potential_names = names], q, names,
                  fetch_named_items_from_sql(names, d, e), d, history, e)

\* lines 630-674: cf is detect_category_filter(question)
ConceptualRoute(base, q, cf, d, history, e) ==
  IF cf # None
  THEN CategoryRoute([base EXCEPT !.category_filter = cf], q,
                     hybrid_category_search(q, cf, NResults, d, e), history, e)
  ELSE PlainRoute([base EXCEPT !.category_filter = cf], q,
                  extract_named_items(q), d, history, e)

\* lines 621-674: base holds the intent classify_intent gave
Route(base, q, d, history, sql_hist, e) ==
  IF base.intent = "EXACT"
  THEN ExactRoute(base, sql_rag_ask(q, d, sql_hist, e))
  ELSE ConceptualRoute(base, q, detect_category_filter(q), d, history, e)

\* ask(question): the values the call leaves in the state
ask(q, d, history, sql_hist, e) ==
  Route([intent |-> classify_intent(q), category_filter |-> UnsetRecord,
         potential_names |-> UnsetNames, enriched |-> UnsetRecord,
         prompt |-> None, outcome |-> "returned", answer |-> NoneValue,
         method |-> "None",
         calls |-> NoCalls, sql_run |-> NotRun,
         conversation_history |-> history,
         sql_history |-> sql_hist, db |-> d],
        q, d, history, sql_hist, e)
(***************************************************************************)
(* The questions put to ask.                                               *)
(***************************************************************************)
\* What is the damage of the Gauss Shotgun?
Q_GAUSS_DAMAGE ==
  <<"W","h","a","t"," ","i","s"," ","t","h","e"," ","d","a","m","a","g","e"," ","o","f"," ","t","h","e"," ","G","a","u","s","s"," ","S","h","o","t","g","u","n","?">>

\* Best bloodied heavy gunner build
Q_HEAVY_GUNNER ==
  <<"B","e","s","t"," ","b","l","o","o","d","i","e","d"," ","h","e","a","v","y"," ","g","u","n","n","e","r"," ","b","u","i","l","d">>

\* Recommend shotguns for a stealth build
Q_SHOTGUNS ==
  <<"R","e","c","o","m","m","e","n","d"," ","s","h","o","t","g","u","n","s"," ","f","o","r"," ","a"," ","s","t","e","a","l","t","h"," ","b","u","i","l","d">>

\* Weapons similar to "The Fixer"
Q_FIXER ==
  <<"W","e","a","p","o","n","s"," ","s","i","m","i","l","a","r"," ","t","o"," ","\"","T","h","e"," ","F","i","x","e","r","\"">>

\* Compare "The Fixer" and shotguns
Q_FIXER_SHOTGUNS ==
  <<"C","o","m","p","a","r","e"," ","\"","T","h","e"," ","F","i","x","e","r","\""," ","a","n","d"," ","s","h","o","t","g","u","n","s">>

\* Perks like Lock and Load
Q_LOCK_AND_LOAD ==
  <<"P","e","r","k","s"," ","l","i","k","e"," ","L","o","c","k"," ","a","n","d"," ","L","o","a","d">>

\* Recommend a build
Q_BUILD ==
  <<"R","e","c","o","m","m","e","n","d"," ","a"," ","b","u","i","l","d">>

\* Tell me about pistols
Q_PISTOLS ==
  <<"T","e","l","l"," ","m","e"," ","a","b","o","u","t"," ","p","i","s","t","o","l","s">>

\* Compare shotguns and rifles
Q_SHOTGUNS_RIFLES ==
  <<"C","o","m","p","a","r","e"," ","s","h","o","t","g","u","n","s"," ","a","n","d"," ","r","i","f","l","e","s">>

AskQuestions ==
  {Q_GAUSS_DAMAGE, Q_HEAVY_GUNNER, Q_SHOTGUNS, Q_FIXER, Q_FIXER_SHOTGUNS,
   Q_LOCK_AND_LOAD, Q_BUILD, Q_PISTOLS, Q_SHOTGUNS_RIFLES}

(***************************************************************************)
(* Questions for the text functions: the phrases below joined by single    *)
(* spaces.                                                                 *)
(***************************************************************************)
MaxPhrases == 3

Phrases ==
  << <<"b","e","s","t">>,
     <<"C","o","m","p","a","r","e">>,
     <<"l","i","s","t"," ","a","l","l">>,
     <<"d","a","m","a","g","e"," ","o","f">>,
     <<"W","h","a","t"," ","i","s">>,
     <<"h","e","a","v","y"," ","g","u","n","n","e","r"," ","b","u","i","l","d">>,
     <<"s","h","o","t","g","u","n","s">>,
     <<"\"","T","h","e"," ","F","i","x","e","r","\"">>,
     <<"L","o","c","k"," ","a","n","d"," ","L","o","a","d">> >>

RECURSIVE Join(_)
Join(ps) ==
  IF Len(ps) = 1 THEN Phrases[ps[1]]
  ELSE Phrases[Head(ps)] \o <<" ">> \o Join(Tail(ps))

Questions ==
  {Join(ps) : ps \in UNION {[1..n -> DOMAIN Phrases] : n \in 1..MaxPhrases}}

(***************************************************************************)
(* State after construction (__init__): empty histories, nothing asked.    *)
(***************************************************************************)
\* no collaborator was called yet
NoEnv == Env("none", <<>>, <<>>, "SPECIFIC", NoQuery)

\* what a call left behind: the values the later call is compared with
LastCall ==
  [question |-> question, env |-> env, outcome |-> outcome, method |-> method,
   prompt |-> prompt, enriched |-> enriched, sql_run |-> sql_run]

NoCall ==
  [question |-> <<>>, env |-> NoEnv, outcome |-> Unset, method |-> "None",
   prompt |-> None, enriched |-> UnsetRecord, sql_run |-> NotRun]

\* no request was served yet
NoResponse == [endpoint |-> "none", status |-> 0, answer |-> NoneValue]

\* no BulkImporter block was entered yet
NotEntered ==
  [state |-> "closed", entry |-> {}, block |-> {}, pending |-> {},
   inserted |-> 0, errors |-> 0]

\* the lookup tables the import helpers read and fill, as the import scripts
\* leave them: rows of id and name, ids given out by AUTO_INCREMENT
LookupTables == {"races", "armor_types"}

HUMAN == <<"H","u","m","a","n">>

SeededTables ==
  [t \in LookupTables |->
     IF t = "races" THEN << [id |-> 1, name |-> HUMAN] >> ELSE << >>]

\* nothing was returned yet; id 0 stands for None
NoResult ==
  [op |-> "none", table |-> "", name |-> <<>>, items |-> {}, id |-> 0]

\* DatabaseMCP.__init__ (db_utils.py lines 43-44): an empty _cache, caching
\* enabled. collation is the comparison the server uses for name = 'value':
\* "ci" (MySQL's default, case-insensitive) or "bin"
Constructed(collation) ==
  [tables |-> SeededTables,
   collation |-> collation,
   cache |-> {},
   cache_enabled |-> TRUE,
   created |-> {},
   returned |-> {},
   result |-> NoResult]

IdleEngine ==
  /\ intent = Unset
  /\ category_filter = UnsetRecord
  /\ potential_names = UnsetNames
  /\ enriched = UnsetRecord
  /\ prompt = None
  /\ outcome = Unset
  /\ answer = NoneValue
  /\ method = "None"
  /\ calls = NoCalls
  /\ sql_run = NotRun
  /\ env = NoEnv
  /\ conversation_history = <<>>
  /\ sql_history = <<>>
  /\ asked = 0
  /\ cleared = FALSE
  /\ previous = NoCall
  /\ turns = <<>>
  /\ rag_engine = FALSE
  /\ response = NoResponse
  /\ stored = {}
  /\ importer = NotEntered

Idle ==
  /\ IdleEngine
  /\ lookup = Constructed("ci")

(***************************************************************************)
(* The text functions applied to a question.                               *)
(***************************************************************************)
InitText ==
  /\ question \in Questions
  /\ db = Views(1, "asc")
  /\ Idle

ClassifyIntent ==
  /\ intent = Unset
  /\ intent' = classify_intent(question)
  /\ UNCHANGED <<question, category_filter, potential_names, db, callVars, sessionVars,
                 apiVars, importVars, lookupVars>>

DetectCategoryFilter ==
  /\ category_filter = UnsetRecord
  /\ category_filter' = detect_category_filter(question)
  /\ UNCHANGED <<question, intent, potential_names, db, callVars, sessionVars,
                 apiVars, importVars, lookupVars>>

ExtractNamedItems ==
  /\ potential_names = UnsetNames
  /\ potential_names' = extract_named_items(question)
  /\ UNCHANGED <<question, intent, category_filter, db, callVars, sessionVars,
                 apiVars, importVars, lookupVars>>

NextText == ClassifyIntent \/ DetectCategoryFilter \/ ExtractNamedItems

SpecText == InitText /\ [][NextText]_vars

(***************************************************************************)
(* hybrid_category_search and the retrieval steps of the plain route       *)
(* (fetch_named_items_from_sql, vector_search, enrich_with_sql), each      *)
(* called once on a store and a ranking.                                   *)
(***************************************************************************)
Filters ==
  {[type |-> weapon_classes[i].type, class_pattern |-> weapon_classes[i].class_pattern] :
     i \in DOMAIN weapon_classes}

\* the name lists extract_named_items hands to fetch_named_items_from_sql
NameLists ==
  { <<>>, <<THE_FIXER>>, <<THE_FIXER, THE_FIXER>>, <<LOCK_AND_LOAD>>,
    <<GAUSS_SHOTGUN, MASTER_INFILTRATOR>>, <<BLOODY_MESS, STIMPAK>> }

\* every ranking with every collaborator answering, and each collaborator
\* failing in turn
RetrievalEnvs(d) ==
  {Env("none", r, <<>>, "SPECIFIC", NoQuery) : r \in Rankings(d)}
  \cup {Env(f, <<Doc("weapon", 1)>>, <<>>, "SPECIFIC", NoQuery) :
          f \in {"db", "embed", "vector"}}

InitRetrieval ==
  /\ question = <<>>
  /\ db \in Databases
  /\ Idle

HybridCategorySearch(filter, e) ==
  /\ outcome = Unset
  /\ \E r \in {hybrid_category_search(question, filter, NResults, db, e)} :
        /\ outcome' = IF r.raised THEN "raised" ELSE "returned"
        /\ enriched' = IF r.raised THEN UnsetRecord ELSE r.enriched
        /\ calls' = r.calls
  /\ category_filter' = filter
  /\ env' = e
  /\ UNCHANGED <<question, intent, potential_names, db, prompt, answer, method,
                 sql_run, sessionVars, apiVars, importVars, lookupVars>>

\* lines 652-669 of ask: named items, vector search, enrichment
retrieve(q, names, d, e) ==
  LET n == fetch_named_items_from_sql(names, d, e) IN
  IF n.raised THEN n
  ELSE
    LET v == vector_search(q, NResults, e) IN
    IF v.raised THEN Raised(AddCalls(n.calls, v.calls))
    ELSE
      LET r == enrich_with_sql(v.metadatas,
                               IF names # <<>> THEN n.enriched ELSE None, d, e)
      IN [r EXCEPT !.calls = AddCalls(AddCalls(n.calls, v.calls), r.calls)]

EnrichWithSql(names, e) ==
  /\ outcome = Unset
  /\ \E r \in {retrieve(question, names, db, e)} :
        /\ outcome' = IF r.raised THEN "raised" ELSE "returned"
        /\ enriched' = IF r.raised THEN UnsetRecord ELSE r.enriched
        /\ calls' = r.calls
  /\ potential_names' = names
  /\ env' = e
  /\ UNCHANGED <<question, intent, category_filter, db, prompt, answer, method,
                 sql_run, sessionVars, apiVars, importVars, lookupVars>>

NextRetrieval ==
  \/ \E e \in RetrievalEnvs(db), filter \in Filters : HybridCategorySearch(filter, e)
  \/ \E e \in RetrievalEnvs(db), names \in NameLists : EnrichWithSql(names, e)

SpecRetrieval == InitRetrieval /\ [][NextRetrieval]_vars

(***************************************************************************)
(* ask, and the loop of rag/cli.py around it.                              *)
(***************************************************************************)
\* one call of ask: what it leaves in the engine
Call(q, e) ==
  \E r \in {ask(q, db, conversation_history, sql_history, e)} :
     /\ question' = q
     /\ intent' = r.intent
     /\ category_filter' = r.category_filter
     /\ potential_names' = r.potential_names
     /\ enriched' = r.enriched
     /\ prompt' = r.prompt
     /\ outcome' = r.outcome
     /\ answer' = r.answer
     /\ method' = r.method
     /\ calls' = r.calls
     /\ sql_run' = r.sql_run
     /\ env' = e
     /\ db' = r.db
     /\ conversation_history' = r.conversation_history
     /\ sql_history' = r.sql_history
     /\ asked' = asked + 1
     /\ cleared' = FALSE

Ask(q, e) ==
  Call(q, e) /\ UNCHANGED <<previous, turns, apiVars, importVars, lookupVars>>

\* cli.py: the command 'clear'
Clear ==
  /\ conversation_history' = <<>>
  /\ cleared' = TRUE
  /\ UNCHANGED <<textVars, db, callVars, sql_history, asked, previous, turns,
                 apiVars, importVars, lookupVars>>

\* the exact path: every reply with every collaborator answering, each
\* collaborator failing in turn on a query that finds rows, and the
\* statements of writes as the generated query
ExactEnvs(texts, writes) ==
  {Env("none", <<>>, t, c, s) :
     t \in texts, c \in Classifications, s \in GeneratedQueries}
  \cup {Env(f, <<>>, t, "SPECIFIC",
            [kind |-> "select", valid |-> TRUE, name |-> GAUSS_SHOTGUN]) :
          f \in {"db", "llm1", "llm2", "llm3"}, t \in texts}
  \cup {[Env("none", <<>>, t, "SPECIFIC", s) EXCEPT !.no_result = n] :
          t \in texts, s \in writes, n \in NoResultSet}

ConceptualEnvs(rankings, texts) ==
  {Env("none", r, t, "SPECIFIC", NoQuery) : r \in rankings, t \in texts}
  \cup {Env(f, <<Doc("weapon", 1)>>, <<>>, "SPECIFIC", NoQuery) :
          f \in {"db", "embed", "vector", "llm1"}}

\* one call of ask with an EXACT question and the exact path's environments
AskExact(questions, texts, writes) ==
  \E q \in questions :
     /\ classify_intent(q) = "EXACT"
     /\ \E e \in ExactEnvs(texts, writes) : Ask(q, e)

\* one call of ask with a CONCEPTUAL question and the environments of the
\* conceptual routes
AskConceptual(questions, rankings, texts) ==
  \E q \in questions :
     /\ classify_intent(q) # "EXACT"
     /\ \E e \in ConceptualEnvs(rankings, texts) : Ask(q, e)

\* replies of the generative model at and over the summary's length
AskTexts == {AnswerText(SummaryLimit), AnswerText(SummaryLimit + 1)}

\* one question put to a fresh engine
InitAsk ==
  /\ question = <<>>
  /\ db \in Databases
  /\ Idle

NextAsk ==
  \/ asked = 0 /\ AskExact(AskQuestions, AskTexts, GeneratedWrites)
  \/ asked = 0 /\ AskConceptual(AskQuestions, Rankings(db), AskTexts)

SpecAsk == InitAsk /\ [][NextAsk]_vars

\* a session of the command loop
MaxCalls == 4

SessionQuestions == {Q_GAUSS_DAMAGE, Q_SHOTGUNS, Q_FIXER}

SessionRankings == {<<>>, <<Doc("weapon", 1), RankDoc("perk", 1, 1)>>}

SessionTexts == {AnswerText(1)}

Init ==
  /\ question = <<>>
  /\ db = Views(2, "asc")
  /\ Idle

Next ==
  \/ asked < MaxCalls /\ AskExact(SessionQuestions, SessionTexts, GeneratedWrites)
  \/ asked < MaxCalls /\ AskConceptual(SessionQuestions, SessionRankings, SessionTexts)
  \/ Clear

Spec == Init /\ [][Next]_vars


(***************************************************************************)
(* The same question put twice, each time to an engine whose histories are *)
(* empty, on a store and an index that do not change: the generated query  *)
(* is a SELECT and the index ranks as it did for the first call.  What the *)
(* generative model writes is drawn anew at each call.                     *)
(***************************************************************************)
TwiceDatabases == {Views(2, "asc"), Views(FormatAllUpTo + 1, "desc")}

InitTwice ==
  /\ question = <<>>
  /\ db \in TwiceDatabases
  /\ Idle

\* HybridFalloutRAG() constructed anew: both histories start empty
Reconstruct ==
  /\ asked = 1
  /\ conversation_history # <<>> \/ sql_history # <<>>
  /\ conversation_history' = <<>>
  /\ sql_history' = <<>>
  /\ UNCHANGED <<textVars, db, callVars, asked, cleared, previous, turns, apiVars,
                 importVars, lookupVars>>

\* the second call, with the question of the first
AskAgain(e) ==
  /\ asked = 1
  /\ conversation_history = <<>>
  /\ sql_history = <<>>
  /\ e.ranking = env.ranking
  /\ Call(question, e)
  /\ previous' = LastCall
  /\ UNCHANGED <<turns, apiVars, importVars, lookupVars>>

NextTwice ==
  \/ asked = 0 /\ AskExact(AskQuestions, AskTexts, {})
  \/ asked = 0 /\ AskConceptual(AskQuestions, Rankings(db), AskTexts)
  \/ Reconstruct
  \/ intent = "EXACT" /\ \E e \in ExactEnvs(AskTexts, {}) : AskAgain(e)
  \/ intent = "CONCEPTUAL" /\ \E e \in ConceptualEnvs({env.ranking}, AskTexts) : AskAgain(e)

SpecTwice == InitTwice /\ [][NextTwice]_vars

(***************************************************************************)
(* api/routes/rag.py: POST /rag/query and GET /rag/health.                 *)
(***************************************************************************)
\* the methods of HybridFalloutRAG (hybrid_query_engine.py lines 37-610)
EngineMethods ==
  {"__init__", "cleanup", "__enter__", "__exit__", "detect_category_filter",
   "classify_intent", "vector_search", "hybrid_category_search",
   "extract_named_items", "fetch_named_items_from_sql", "enrich_with_sql",
   "format_vector_results", "ask"}

\* the attribute query_rag calls on the engine
ENDPOINT_METHOD == "query"

\* get_rag_engine(): the singleton is constructed on first use; init_ok
\* tells whether HybridFalloutRAG() can be constructed now
get_rag_engine(created, init_ok) ==
  [raised |-> ~created /\ ~init_ok, created |-> created \/ init_ok]

Response(endpoint, status, value) ==
  [endpoint |-> endpoint, status |-> status, answer |-> value]

\* POST /rag/query: any exception becomes HTTP 500
QueryRag(q, e, init_ok) ==
  \E g \in {get_rag_engine(rag_engine, init_ok)} :
     /\ rag_engine' = g.created
     /\ IF g.raised \/ ENDPOINT_METHOD \notin EngineMethods
        THEN \* the constructor raised, or engine.query raised AttributeError
             /\ response' = Response("query", 500, NoneValue)
             /\ question' = q
             /\ env' = e
             /\ UNCHANGED <<intent, category_filter, potential_names, db,
                            enriched, prompt, outcome, answer, method, calls,
                            sql_run, sessionVars, importVars, lookupVars>>
        ELSE /\ Call(q, e)
             /\ response' = IF outcome' = "raised"
                            THEN Response("query", 500, NoneValue)
                            ELSE Response("query", 200, answer')
             /\ UNCHANGED <<previous, turns, importVars, lookupVars>>

\* GET /rag/health
RagHealth(init_ok) ==
  \E g \in {get_rag_engine(rag_engine, init_ok)} :
     /\ rag_engine' = g.created
     /\ response' = IF g.raised THEN Response("health", 503, NoneValue)
                    ELSE Response("health", 200, StrValue(<<"h","e","a","l","t","h","y">>))
     /\ UNCHANGED <<textVars, db, callVars, sessionVars, importVars, lookupVars>>

ApiDatabases == {Views(0, "asc"), Views(2, "asc")}

ApiTexts == {AnswerText(1)}

ApiRankings == {<<>>, <<Doc("weapon", 1), RankDoc("perk", 1, 1)>>}

InitApi ==
  /\ question = <<>>
  /\ db \in ApiDatabases
  /\ Idle

NextApi ==
  \/ \E q \in AskQuestions, e \in ExactEnvs(ApiTexts, {}), init_ok \in BOOLEAN :
        classify_intent(q) = "EXACT" /\ QueryRag(q, e, init_ok)
  \/ \E q \in AskQuestions, e \in ConceptualEnvs(ApiRankings, ApiTexts),
        init_ok \in BOOLEAN :
        classify_intent(q) # "EXACT" /\ QueryRag(q, e, init_ok)
  \/ \E init_ok \in BOOLEAN : RagHealth(init_ok)

SpecApi == InitApi /\ [][NextApi]_vars

(***************************************************************************)
(* database/import_utils.py: a BulkImporter block around bulk_insert.  The *)
(* table has a unique key; a row is written as its key.                    *)
(***************************************************************************)
ImportRows == 1..3

\* longest data list handed to bulk_insert
MaxData == 3

DataLists == UNION {[1..n -> ImportRows] : n \in 0..MaxData}

\* bulk_insert's default batch_size
DefaultBatchSize == 1000

BatchSizes == {2, DefaultBatchSize}

\* the INSERT of a batch violates the unique key
DuplicateKey(batch, rows) ==
  \/ \E i \in DOMAIN batch : batch[i] \in rows
  \/ \E i, j \in DOMAIN batch : i # j /\ batch[i] = batch[j]

\* legacy_connector.execute_many: a connection of its own, executemany,
\* commit, close
execute_many(rows, batch) ==
  IF DuplicateKey(batch, rows)
  THEN [raised |-> TRUE, stored |-> rows, affected |-> 0]
  ELSE [raised |-> FALSE, stored |-> rows \cup Range(batch), affected |-> Len(batch)]

\* ImportHelper.bulk_insert: the batches data[i:i + batch_size] in turn;
\* r holds the table, the rows inserted so far and the statistics
RECURSIVE InsertBatches(_, _, _)
InsertBatches(data, batch_size, r) ==
  IF data = <<>> THEN r
  ELSE
    LET batch == Take(data, batch_size)
        m == execute_many(r.stored, batch)
    IN IF m.raised
       THEN [r EXCEPT !.raised = TRUE, !.errors = r.errors + Len(batch)]
       ELSE InsertBatches(SubSeq(data, Len(batch) + 1, Len(data)), batch_size,
                          [r EXCEPT !.stored = m.stored,
                                    !.block = r.block \cup Range(batch),
                                    !.inserted = r.inserted + m.affected])

bulk_insert(data, batch_size, rows, imp) ==
  InsertBatches(data, batch_size,
                [raised |-> FALSE, stored |-> rows, block |-> imp.block,
                 inserted |-> imp.inserted, errors |-> imp.errors])

\* BulkImporter().__enter__: a new helper, and transaction_context opens
\* the connection that __exit__ will commit or roll back
Enter ==
  /\ importer.state \in {"closed", "committed", "rolled_back"}
  /\ importer' = [state |-> "open", entry |-> stored, block |-> {},
                  pending |-> {}, inserted |-> 0, errors |-> 0]
  /\ UNCHANGED <<textVars, db, callVars, sessionVars, apiVars, stored, lookupVars>>

\* importer.bulk_insert(table, columns, data, batch_size) inside the block
BulkInsert(data, batch_size) ==
  /\ importer.state = "open"
  /\ \E r \in {bulk_insert(data, batch_size, stored, importer)} :
        /\ stored' = r.stored
        /\ importer' = [importer EXCEPT
                          !.state = IF r.raised THEN "raised" ELSE "open",
                          !.block = r.block,
                          !.inserted = r.inserted,
                          !.errors = r.errors]
  /\ UNCHANGED <<textVars, db, callVars, sessionVars, apiVars, lookupVars>>

\* __exit__(None, None, None): transaction_context commits its connection
ExitNormal ==
  /\ importer.state = "open"
  /\ stored' = stored \cup importer.pending
  /\ importer' = [importer EXCEPT !.state = "committed", !.pending = {}]
  /\ UNCHANGED <<textVars, db, callVars, sessionVars, apiVars, lookupVars>>

\* __exit__ with the exception of bulk_insert, or of the block's own code:
\* transaction_context rolls its connection back and re-raises
ExitError ==
  /\ importer.state \in {"open", "raised"}
  /\ stored' = stored
  /\ importer' = [importer EXCEPT !.state = "rolled_back", !.pending = {}]
  /\ UNCHANGED <<textVars, db, callVars, sessionVars, apiVars, lookupVars>>

InitImport ==
  /\ question = <<>>
  /\ db = Views(1, "asc")
  /\ Idle

NextImport ==
  \/ Enter
  \/ \E data \in DataLists, batch_size \in BatchSizes : BulkInsert(data, batch_size)
  \/ ExitNormal
  \/ ExitError

SpecImport == InitImport /\ [][NextImport]_vars
(***************************************************************************)
(* A session of questions on whatever routes, with the turns that were     *)
(* answered kept in order: a conceptual call that returned, and an exact   *)
(* call that returned the formatted answer of a query that found rows.     *)
(***************************************************************************)
\* the call that just ended gave the user an answer text
Answered(a, o) ==
  /\ o = "returned"
  /\ \/ a.pytype = "str"
     \/ /\ a.pytype = "dict"
        /\ a.type = "answer"
        /\ a.content.kind = "final_answer"

\* the text of that answer
TextOf(a) == IF a.pytype = "str" THEN a.text ELSE a.content.text

\* one question of the session, answered or not
Turn(q, e) ==
  /\ Call(q, e)
  /\ turns' = IF Answered(answer', outcome')
              THEN Append(turns, [question |-> q, method |-> method',
                                   summary |-> Summary(TextOf(answer'))])
              ELSE turns
  /\ UNCHANGED <<previous, apiVars, importVars, lookupVars>>

\* the replies of the exact path in a session: a query that finds rows, one
\* that finds none, a clarification, and a failing model call
DialogueExactEnvs ==
  {Env("none", <<>>, AnswerText(1), c, s) :
     c \in Classifications,
     s \in {q \in GeneratedQueries : q.valid}}
  \cup {Env("llm3", <<>>, AnswerText(1), "SPECIFIC",
            [kind |-> "select", valid |-> TRUE, name |-> GAUSS_SHOTGUN])}

DialogueConceptualEnvs ==
  {Env(f, <<Doc("weapon", 1)>>, AnswerText(1), "SPECIFIC", NoQuery) :
     f \in {"none", "llm1"}}

\* questions answered before the one whose prompt is looked at
MaxTurns == 4

InitDialogue ==
  /\ question = <<>>
  /\ db = Views(2, "asc")
  /\ Idle

NextDialogue ==
  \/ /\ asked <= MaxTurns
     /\ \E q \in SessionQuestions, e \in DialogueExactEnvs :
           classify_intent(q) = "EXACT" /\ Turn(q, e)
  \/ /\ asked <= MaxTurns
     /\ \E q \in SessionQuestions, e \in DialogueConceptualEnvs :
           classify_intent(q) # "EXACT" /\ Turn(q, e)

SpecDialogue == InitDialogue /\ [][NextDialogue]_vars


(***************************************************************************)
(* database/db_utils.py: the lookup cache of DatabaseMCP, and              *)
(* ImportHelper.get_lookup_id of database/import_utils.py on top of it.    *)
(* A row is a record of id and name; a dict built from rows is the set of  *)
(* the rows that survive the comprehension, read by the key column.        *)
(***************************************************************************)

\* name = 'value' as the server compares it under the table's collation
SqlEquals(collation, a, b) ==
  IF collation = "ci" THEN lower(a) = lower(b) ELSE a = b

\* self.select(table, where=f"{name_column} = '{name_value}'"): the rows that
\* match, in table order
SelectWhereName(self, table, name_value) ==
  SelectSeq(self.tables[table],
            LAMBDA r : SqlEquals(self.collation, r.name, name_value))

\* {row[key_column]: row[value_column] for row in results}: a later row with
\* the same key replaces an earlier one
DictOf(results, key_column) ==
  {results[i] : i \in {j \in DOMAIN results :
      \A k \in DOMAIN results : k > j => results[k][key_column] # results[j][key_column]}}

\* f"{table}:{key_column}:{value_column}"; no table or column name holds ':'
cache_key(table, key_column, value_column) == <<table, key_column, value_column>>

\* the entry of _cache under a key, if any
CacheEntries(self, key) == {e \in self.cache : e.key = key}

\* DatabaseMCP.get_cached_lookup: the dict returned and the cache it leaves
get_cached_lookup(self, table, key_column, value_column) ==
  LET key == cache_key(table, key_column, value_column)
      hit == self.cache_enabled /\ CacheEntries(self, key) # {}
      fetched == DictOf(self.tables[table], key_column)
  IN  IF hit
      THEN [items |-> (CHOOSE e \in CacheEntries(self, key) : TRUE).items,
            cache |-> self.cache]
      ELSE [items |-> fetched,
            cache |-> IF self.cache_enabled
                      THEN self.cache \cup {[key |-> key, items |-> fetched]}
                      ELSE self.cache]

\* DatabaseMCP.get_reverse_lookup
get_reverse_lookup(self, table, key_column, value_column) ==
  get_cached_lookup(self, table, key_column, value_column)

\* [k for k in self._cache.keys() if k.startswith(f"{table}:")]
cache_keys_to_clear_when_enabled(self, table) ==
  IF self.cache_enabled
  THEN {e.key : e \in {c \in self.cache : c.key[1] = table}}
  ELSE {}

cache_keys_to_clear(self, table) ==
  {e.key : e \in {c \in self.cache : c.key[1] = table}}

\* cursor.lastrowid of the insert: the next AUTO_INCREMENT value
NextId(rows) == Len(rows) + 1

\* DatabaseMCP.get_or_create_lookup once the select has returned `results`:
\* the id returned with the tables, the cache and the entry created
GetOrCreate(self, table, name_value, results) ==
  IF results # <<>>
  THEN [id |-> results[1].id, tables |-> self.tables, cache |-> self.cache,
        created |-> self.created]
  ELSE LET new_id == NextId(self.tables[table])
       IN  [id |-> new_id,
            tables |-> [self.tables EXCEPT
                          ![table] = Append(@, [id |-> new_id, name |-> name_value])],
            cache |-> {e \in self.cache :
                         e.key \notin cache_keys_to_clear(self, table)},
            created |-> self.created \cup
                          {[table |-> table, name |-> name_value, id |-> new_id]}]

enable_cache ==
  /\ lookup' = [lookup EXCEPT !.cache_enabled = TRUE,
                              !.result = [NoResult EXCEPT !.op = "enable_cache"]]
  /\ UNCHANGED <<textVars, db, callVars, sessionVars, apiVars, importVars>>

disable_cache ==
  /\ lookup' = [lookup EXCEPT !.cache_enabled = FALSE,
                              !.result = [NoResult EXCEPT !.op = "disable_cache"]]
  /\ UNCHANGED <<textVars, db, callVars, sessionVars, apiVars, importVars>>

\* DatabaseMCP.clear_cache, also reached through ImportHelper.clear_cache
clear_cache ==
  /\ lookup' = [lookup EXCEPT !.cache = {},
                              !.result = [NoResult EXCEPT !.op = "clear_cache"]]
  /\ UNCHANGED <<textVars, db, callVars, sessionVars, apiVars, importVars>>

GetCachedLookup(table, key_column, value_column) ==
  /\ \E r \in {get_cached_lookup(lookup, table, key_column, value_column)} :
       lookup' = [lookup EXCEPT
                    !.cache = r.cache,
                    !.result = [op |-> "get_cached_lookup", table |-> table,
                                name |-> <<>>, items |-> r.items, id |-> 0]]
  /\ UNCHANGED <<textVars, db, callVars, sessionVars, apiVars, importVars>>

GetOrCreateLookup(table, name_value) ==
  /\ \E r \in {GetOrCreate(lookup, table, name_value,
                           SelectWhereName(lookup, table, name_value))} :
       lookup' = [lookup EXCEPT
                    !.tables = r.tables,
                    !.cache = r.cache,
                    !.created = r.created,
                    !.result = [op |-> "get_or_create_lookup", table |-> table,
                                name |-> name_value, items |-> {}, id |-> r.id]]
  /\ UNCHANGED <<textVars, db, callVars, sessionVars, apiVars, importVars>>

\* ImportHelper.get_lookup_id: the reverse lookup is read (and cached), then
\* the id is taken from it, or created, or None
GetLookupId(table, name_value, auto_create) ==
  /\ \E c \in {get_reverse_lookup(lookup, table, "name", "id")} :
       LET found == {r \in c.items : r.name = name_value}
           self == [lookup EXCEPT !.cache = c.cache]
       IN  IF found # {}
           THEN \E r \in found :
                  lookup' = [self EXCEPT
                     !.returned = @ \cup {[table |-> table, name |-> name_value,
                                           id |-> r.id]},
                     !.result = [op |-> "get_lookup_id", table |-> table,
                                 name |-> name_value, items |-> {},
                                 id |-> r.id]]
           ELSE IF auto_create
           THEN \E g \in {GetOrCreate(self, table, name_value,
                                         SelectWhereName(self, table, name_value))} :
                     lookup' = [self EXCEPT
                        !.tables = g.tables,
                        !.cache = g.cache,
                        !.created = g.created,
                        !.returned = @ \cup {[table |-> table, name |-> name_value,
                                              id |-> g.id]},
                        !.result = [op |-> "get_lookup_id", table |-> table,
                                    name |-> name_value, items |-> {},
                                    id |-> g.id]]
           ELSE lookup' = [self EXCEPT
                     !.result = [op |-> "get_lookup_id", table |-> table,
                                 name |-> name_value, items |-> {},
                                 id |-> 0]]
  /\ UNCHANGED <<textVars, db, callVars, sessionVars, apiVars, importVars>>

\* names handed to the helpers: one that races holds and armor_types lacks,
\* and its lower-case spelling, which only a case-insensitive select finds
LookupNames == {HUMAN, lower(HUMAN)}

InitLookup ==
  /\ question = <<>>
  /\ db = Views(1, "asc")
  /\ IdleEngine
  /\ lookup \in {Constructed(c) : c \in {"ci", "bin"}}

NextLookup ==
  \/ enable_cache
  \/ disable_cache
  \/ clear_cache
  \/ \E t \in LookupTables : GetCachedLookup(t, "id", "name")
  \/ \E t \in LookupTables : GetCachedLookup(t, "name", "id")
  \/ \E t \in LookupTables, n \in LookupNames : GetOrCreateLookup(t, n)
  \/ \E t \in LookupTables, n \in LookupNames, a \in BOOLEAN : GetLookupId(t, n, a)

SpecLookup == InitLookup /\ [][NextLookup]_vars

(***************************************************************************)
(* Properties of the retrieval steps (SpecRetrieval).                      *)
(***************************************************************************)
\* the rows of the weapon view whose class matches the filter's pattern
MatchingWeapons(filter) ==
  {i \in DOMAIN db.weapons : Like(filter.class_pattern, db.weapons[i].weapon_class)}

\* the weapon list holds the row of the view at position i
HoldsWeapon(list, i) ==
  \E j \in DOMAIN list :
     /\ list[j].id = db.weapons[i].id
     /\ list[j].weapon_name = db.weapons[i].weapon_name
     /\ list[j].weapon_class = db.weapons[i].weapon_class

\* C1: whenever hybrid_category_search returns, its weapon list holds every
\* row of the weapon view whose class matches the category filter, whatever
\* the vector index answered: ranking reorders rows and drops none.
C1_CategoryComplete ==
  (category_filter # UnsetRecord /\ outcome = "returned")
    => \A i \in MatchingWeapons(category_filter) : HoldsWeapon(enriched.weapons, i)

\* a class of NResults + 1 shotguns, all of them ranked by the index: the
\* first NResults in rank order (1, then 31 downwards), the last one (2)
\* appended behind them
C1_Witness ==
  /\ category_filter # UnsetRecord
  /\ outcome = "returned"
  /\ Cardinality(MatchingWeapons(category_filter)) = NResults + 1
  /\ Len(enriched.weapons) = NResults + 1
  /\ enriched.weapons[1].id = 1
  /\ enriched.weapons[2].id = NResults + 1
  /\ enriched.weapons[NResults + 1].id = 2

\* enrich_with_sql has returned its lists
Enriched == potential_names # UnsetNames /\ outcome = "returned"

\* the identity key of a record of a variant's list
KeyOf(t, r) == r[id_field_map[t]]

\* the rank of a row of the perk views; the other views have none
RankOf(r) == IF "rank" \in DOMAIN r THEN r.rank ELSE 0

\* C2 (as stated): no list returned by enrich_with_sql holds two records with
\* the same identity key.
C2_NoDuplicateKey ==
  Enriched =>
    \A v \in DOMAIN Variants :
      \A i, j \in DOMAIN enriched[Variants[v]] :
         KeyOf(Variants[v], enriched[Variants[v]][i])
           = KeyOf(Variants[v], enriched[Variants[v]][j]) => i = j

\* C2 (amended): no list returned by enrich_with_sql holds two records with
\* the same identity key and the same rank: a weapon, armor, mutation or
\* consumable appears once, a perk or legendary perk once per rank.
C2_NoDuplicateRecord ==
  Enriched =>
    \A v \in DOMAIN Variants :
      \A i, j \in DOMAIN enriched[Variants[v]] :
         (/\ KeyOf(Variants[v], enriched[Variants[v]][i])
               = KeyOf(Variants[v], enriched[Variants[v]][j])
          /\ RankOf(enriched[Variants[v]][i]) = RankOf(enriched[Variants[v]][j]))
           => i = j

\* the Gauss Shotgun is both a vector hit and a named item and is listed
\* once, with the mechanics of the hit's query; the named legendary perk is
\* listed with both of its ranks
C2_Witness ==
  /\ Enriched
  /\ potential_names = <<GAUSS_SHOTGUN, MASTER_INFILTRATOR>>
  /\ Len(enriched.weapons) = 1
  /\ enriched.weapons[1].weapon_name = GAUSS_SHOTGUN
  /\ "mechanics" \in DOMAIN enriched.weapons[1]
  /\ Len(enriched.legendary_perks) = 2
  /\ enriched.legendary_perks[1].legendary_perk_id = enriched.legendary_perks[2].legendary_perk_id
  /\ enriched.legendary_perks[1].rank # enriched.legendary_perks[2].rank

(***************************************************************************)
(* Properties of the text functions (SpecText).                            *)
(***************************************************************************)
HasConceptualKeyword(q) ==
  \E i \in DOMAIN conceptual_keywords : Contains(conceptual_keywords[i], lower(q))

HasExactKeyword(q) ==
  \E i \in DOMAIN exact_keywords : Contains(exact_keywords[i], lower(q))

\* C3: a question whose lowercased text contains a conceptual keyword and an
\* exact keyword is classified CONCEPTUAL, in whatever order they occur.
C3_ConceptualWins ==
  (intent # Unset /\ HasConceptualKeyword(question) /\ HasExactKeyword(question))
    => intent = "CONCEPTUAL"

\* a classified question that starts with an exact keyword and has a
\* conceptual keyword behind it
C3_Witness ==
  /\ intent = "CONCEPTUAL"
  /\ HasConceptualKeyword(question)
  /\ \E i \in DOMAIN exact_keywords : StartsAt(exact_keywords[i], lower(question), 1)

(***************************************************************************)
(* Properties of one call of ask (SpecAsk).                                *)
(***************************************************************************)
\* C4 (as stated): for "Best bloodied heavy gunner build" ask classifies
\* CONCEPTUAL, detects no category filter and returns method "VECTOR+SQL".
C4_HeavyGunnerPlainRoute ==
  (question = Q_HEAVY_GUNNER /\ outcome = "returned")
    => /\ intent = "CONCEPTUAL"
       /\ category_filter = None
       /\ method = "VECTOR+SQL"

\* the label ask gives the route a question takes
RouteLabel(q) ==
  IF classify_intent(q) = "EXACT" THEN "SQL"
  ELSE IF detect_category_filter(q) # None THEN "HYBRID"
  ELSE "VECTOR+SQL"

\* C5 (as stated): a call of ask either raises, or returns a pair of the
\* answer text and the label of the route taken; it never returns a pair
\* whose first component is an error or another non-answer.
C5_AnswerTextOrError ==
  asked > 0 =>
    \/ outcome = "raised" /\ answer = NoneValue /\ method = "None"
    \/ /\ outcome = "returned"
       /\ answer.pytype = "str"
       /\ method = RouteLabel(question)

\* the first component of the returned pair states that no data was found
StatesNoData ==
  /\ answer.pytype = "dict"
  /\ answer.type = "answer"
  /\ answer.content.kind = "No data found in the database for this query."

\* the generated query of an EXACT question ran and found no row
ZeroRows == intent = "EXACT" /\ sql_run.status = "empty"

\* C6 (as stated): when the generated query of an EXACT question runs and
\* finds no row, ask returns an answer stating that no data was found,
\* with method "EXACT".
C6_NoDataMethodExact ==
  ZeroRows => (outcome = "returned" /\ StatesNoData /\ method = "EXACT")

\* C6 (amended): when the generated query of an EXACT question runs and
\* finds no row, ask raises no error and returns the exact path's reply of
\* type 'answer' stating that no data was found, with method "SQL".
C6_NoDataMethodSql ==
  ZeroRows => (outcome = "returned" /\ StatesNoData /\ method = "SQL")

\* the query for Marsupial on the weapon view ran and found nothing
C6_Witness ==
  /\ ZeroRows
  /\ sql_run.sql.name = MARSUPIAL
  /\ outcome = "returned"
  /\ method = "SQL"
  /\ answer.content.sql = sql_run.sql

\* C7 (as stated): when the generated query of the exact path fails to
\* execute, ask raises instead of returning a pair.
C7_ExecutionFailureRaises ==
  (intent = "EXACT" /\ sql_run.status = "failed") => outcome = "raised"

\* the question holds the name between double quotes
Quotes(q, name) == Contains(<<"\"">> \o name \o <<"\"">>, q)

\* C8 (as stated): when a CONCEPTUAL question quotes "The Fixer", the name
\* is extracted and the enriched result handed to the formatter holds the
\* weapon's row, whatever the vector index ranked.
C8_QuotedItemEnriched ==
  (/\ intent = "CONCEPTUAL"
   /\ Quotes(question, THE_FIXER)
   /\ \E i \in DOMAIN db.weapons : db.weapons[i].weapon_name = THE_FIXER
   /\ prompt # None)
    => /\ potential_names # UnsetNames
       /\ THE_FIXER \in Range(potential_names)
       /\ \E j \in DOMAIN enriched.weapons : enriched.weapons[j].weapon_name = THE_FIXER

\* the question names a weapon class
NamesWeaponClass(q) ==
  \E i \in DOMAIN weapon_classes : Contains(weapon_classes[i].keyword, lower(q))

\* the context block holds the weapon at position i of the view
InContext(i) ==
  \E k \in DOMAIN prompt.context :
     /\ "item" \in DOMAIN prompt.context[k]
     /\ prompt.context[k].item_type = "weapons"
     /\ prompt.context[k].item.id = db.weapons[i].id
     /\ prompt.context[k].item.weapon_name = db.weapons[i].weapon_name

Appended(h1, h2) ==
  /\ Len(h2) \in {Len(h1), Len(h1) + 1}
  /\ SubSeq(h2, 1, Len(h1)) = h1

\* C10: every step of a session either clears the history on the user's
\* command or leaves each history as it was or with one turn appended at
\* its end, whether the call returned or raised.
C10_AppendOnly ==
  [][Clear \/ (/\ Appended(conversation_history, conversation_history')
               /\ Appended(sql_history, sql_history'))]_vars

\* both histories have grown: two conceptual turns, one exact turn
C10_Witness ==
  /\ Len(conversation_history) >= 2
  /\ conversation_history[1].question # conversation_history[2].question
  /\ Len(sql_history) >= 1

(***************************************************************************)
(* The command 'clear' (Spec).                                             *)
(***************************************************************************)
\* C11: the first call of ask after the command 'clear' builds, on the exact
\* route as on the conceptual routes, a prompt whose preamble holds no turn:
\* no turn is recorded between the clear and that call, so a turn in the
\* preamble was recorded before the clear.
C11_ClearedPrompt ==
  [][(cleared /\ asked' = asked + 1 /\ prompt' # None)
       => prompt'.history = <<>>]_vars

(***************************************************************************)
(* The same question asked twice (SpecTwice).                              *)
(***************************************************************************)
\* the rows the exact path's query returned
RowsOf(run) ==
  IF run.status = "rows" THEN query_database(db, run.sql, NoEnv).rows ELSE <<>>

\* the records that ground the answer of a call: the context block of the
\* prompt, the enriched lists and the rows of the generated query
GroundingOf(c) ==
  [context |-> IF c.prompt = None THEN <<>> ELSE c.prompt.context,
   enriched |-> c.enriched,
   rows |-> RowsOf(c.sql_run)]

\* both calls of the same question have returned
AskedTwice == asked = 2 /\ outcome = "returned" /\ previous.outcome = "returned"

Hits == Query(env.ranking, NResults)

\* enrich_with_sql has returned and no named item was merged: its lists are
\* the rows of its by-id queries
Fetched == Enriched /\ potential_names = <<>>

\* the variant that the by-id query of a document type fills
VariantOf(type) ==
  Variants[CHOOSE i \in DOMAIN QueriedTypes : QueriedTypes[i] = type]

\* the rows the by-id query of the hit's variant yielded for the hit's id
RowsFor(m) ==
  SelectSeq(enriched[VariantOf(m.type)],
            LAMBDA r : KeyOf(VariantOf(m.type), r) = IntOf(m.id))

\* the rows of the variant's view that carry the hit's id
ViewRowsFor(m) ==
  SelectSeq(db[VariantOf(m.type)],
            LAMBDA r : KeyOf(VariantOf(m.type), r) = IntOf(m.id))

\* C13 (as stated): for every (variant, id) the vector index returns, the
\* by-id query that enrichment issues for that variant yields at most one
\* row for that id.
C13_AtMostOneRowPerHit ==
  Fetched =>
    \A k \in DOMAIN Hits :
       Hits[k].type \in Range(QueriedTypes) => Len(RowsFor(Hits[k])) <= 1

\* C13 (amended): for every (variant, id) the vector index returns, the
\* by-id query yields at most one row per rank for that id: at most one row
\* for a weapon, armor, mutation or consumable, and for a perk or legendary
\* perk every rank row of the view, whichever rank the document is of.
C13_OneRowPerRank ==
  Fetched =>
    \A k \in DOMAIN Hits :
       Hits[k].type \in Range(QueriedTypes) =>
         /\ \A i, j \in DOMAIN RowsFor(Hits[k]) :
               RankOf(RowsFor(Hits[k])[i]) = RankOf(RowsFor(Hits[k])[j]) => i = j
         /\ Hits[k].type \in {"perk", "legendary_perk"} =>
               Len(RowsFor(Hits[k])) = Len(ViewRowsFor(Hits[k]))
         /\ Hits[k].type \notin {"perk", "legendary_perk"} =>
               Len(RowsFor(Hits[k])) <= 1

\* the index returned the document of rank 2 of perk 1 and the query gave
\* the rows of both ranks; a weapon hit gave its one row
C13_Witness ==
  /\ Fetched
  /\ \E k \in DOMAIN Hits :
        /\ Hits[k].type = "perk"
        /\ "rank" \in DOMAIN Hits[k]
        /\ Hits[k].rank = str(2)
        /\ Len(RowsFor(Hits[k])) = 2
  /\ \E k \in DOMAIN Hits : Hits[k].type = "weapon" /\ Len(RowsFor(Hits[k])) = 1

(***************************************************************************)
(* Collaborators that fail during one call of ask (SpecAsk).               *)
(***************************************************************************)
\* the embedding provider or the vector index was unavailable to a
\* CONCEPTUAL question
RetrievalDown ==
  asked = 1 /\ intent = "CONCEPTUAL" /\ (~env.embed_ok \/ ~env.vector_ok)

\* the error propagated: nothing returned, the generative model not called,
\* no turn appended
Propagated ==
  /\ outcome = "raised"
  /\ method = "None"
  /\ answer = NoneValue
  /\ calls.llm = 0
  /\ conversation_history = <<>>

\* the question names a weapon class of which the store holds no weapon
EmptyCategory ==
  category_filter # None /\ MatchingWeapons(category_filter) = {}

\* C14 (as stated): whenever the embedding provider or the vector index is
\* unavailable, every CONCEPTUAL question, on the plain route or the
\* category route and whatever the category's size, ends in a propagated
\* error.
C14_RetrievalDownRaises == RetrievalDown => Propagated

\* C14 (amended): the question ends in a propagated error on the plain route
\* and on the category route when the pre-filter finds a weapon; when it
\* finds none, neither collaborator is called and ask returns an answer
\* built on the empty category, with method "HYBRID" and a turn appended.
C14_RetrievalDownRaisesWhenCalled ==
  RetrievalDown =>
    /\ ~EmptyCategory => Propagated
    /\ EmptyCategory =>
         /\ outcome = "returned"
         /\ method = "HYBRID"
         /\ calls.embed = 0 /\ calls.vector = 0 /\ calls.llm = 1
         /\ Len(conversation_history) = 1

\* the index is down for a question on the NResults + 1 shotguns of the
\* store: the embedding was computed, the query raised
C14_Witness ==
  /\ RetrievalDown
  /\ ~env.vector_ok
  /\ question = Q_SHOTGUNS
  /\ Cardinality(MatchingWeapons(category_filter)) = NResults + 1
  /\ Propagated
  /\ calls.sql = 1 /\ calls.embed = 1 /\ calls.vector = 1

(***************************************************************************)
(* The generative model failing in format_vector_results (Spec).           *)
(***************************************************************************)
\* C15: when the generative-model call made by format_vector_results fails,
\* ask raises, the model was called once and not a second time, and both
\* histories are left exactly as they were before the call.
C15_FormatterFailurePropagates ==
  [][(asked' = asked + 1 /\ intent' = "CONCEPTUAL" /\ ~env'.llm_ok)
       => /\ outcome' = "raised"
          /\ prompt' # None
          /\ calls'.llm = 1
          /\ conversation_history' = conversation_history
          /\ sql_history' = sql_history]_vars

\* the model failed on a question asked after an answered one: the prompt
\* was built with the earlier turn, which is still the whole history
C15_Witness ==
  /\ intent = "CONCEPTUAL"
  /\ ~env.llm_ok
  /\ outcome = "raised"
  /\ calls.llm = 1
  /\ prompt # None
  /\ Len(prompt.history) = 1
  /\ Len(conversation_history) = 1

(***************************************************************************)
(* The relational store during a session (Spec).                           *)
(***************************************************************************)
\* C16: no call of ask changes the relational store: the by-id, by-category
\* and by-name lookups and the exact path's generated query leave the stored
\* rows as they were.
C16_StoreUnchanged == [][db' = db]_vars

(***************************************************************************)
(* A BulkImporter block that fails (SpecImport).                           *)
(***************************************************************************)
\* C17: when a BulkImporter block exits with an error, every operation made
\* through the helper is rolled back: the table holds none of the rows the
\* block inserted.
C17_FailedBlockRolledBack ==
  importer.state = "rolled_back" => stored \cap importer.block = {}

(***************************************************************************)
(* POST /rag/query (SpecApi).                                              *)
(***************************************************************************)
\* what the engine makes of the request's question
EngineAnswer == ask(question, db, conversation_history, sql_history, env)

\* C18: a POST to /rag/query whose question the engine can answer returns a
\* response carrying the engine's answer; the endpoint answers with HTTP 500
\* only when the engine's processing of the question fails.
C18_AnswerableIsAnswered ==
  (response.endpoint = "query" /\ rag_engine /\ EngineAnswer.outcome = "returned")
    => /\ response.status = 200
       /\ response.answer = EngineAnswer.answer

(***************************************************************************)
(* The list and the round trips of hybrid_category_search (SpecRetrieval). *)
(***************************************************************************)
\* hybrid_category_search has returned
Searched == category_filter # UnsetRecord /\ outcome = "returned"

\* the rows of the pre-filter, in the order the server gave them
PreFiltered ==
  SelectSeq(db.weapons, LAMBDA w : Like(category_filter.class_pattern, w.weapon_class))

\* the ids of the category's members among the weapon documents the index
\* returned, in rank order, cut to k
RankedMembers(k) ==
  LET hits == QueryWhere(env.ranking, IndexWindow, "weapon")
      members == {str(PreFiltered[i].id) : i \in DOMAIN PreFiltered}
      found == SelectSeq(hits, LAMBDA m : m.id \in members)
  IN Take([i \in 1..Len(found) |-> found[i].id], k)

\* the ids of a list of weapon rows
IdsOf(rows) == [i \in 1..Len(rows) |-> str(rows[i].id)]

\* C19: the weapon list hybrid_category_search returns is a ranked prefix
\* followed by a remainder: the prefix is the category's members found among
\* the index's neighbours, in rank order, cut to n_results; the remainder is
\* every other pre-filtered weapon in pre-filter order; no weapon of the
\* remainder precedes one of the prefix.
C19_RankedPrefixThenRemainder ==
  Searched =>
    LET prefix == RankedMembers(NResults)
        rest == SelectSeq(PreFiltered, LAMBDA w : str(w.id) \notin Range(prefix))
    IN /\ Len(enriched.weapons) = Len(prefix) + Len(rest)
       /\ SubSeq(IdsOf(enriched.weapons), 1, Len(prefix)) = prefix
       /\ SubSeq(IdsOf(enriched.weapons), Len(prefix) + 1, Len(enriched.weapons))
            = IdsOf(rest)

\* NResults + 1 shotguns stored in descending id order, of which the index
\* ranked 2 .. NResults in ascending order: they come first, then the two
\* unranked ones as the store ordered them
C19_Witness ==
  /\ Searched
  /\ Len(PreFiltered) = NResults + 1
  /\ PreFiltered[1].id = NResults + 1
  /\ RankedMembers(NResults) = IdsOf(SubSeq(enriched.weapons, 1, NResults - 1))
  /\ enriched.weapons[1].id = 2
  /\ enriched.weapons[NResults - 1].id = NResults
  /\ enriched.weapons[NResults].id = NResults + 1
  /\ enriched.weapons[NResults + 1].id = 1

\* C20 (as stated): every call of hybrid_category_search makes exactly one
\* relational pre-filter query, one embedding call and one vector-index
\* query, for every category size, the empty category included.
C20_OneRoundTripEach ==
  Searched => calls.sql = 1 /\ calls.embed = 1 /\ calls.vector = 1

\* C20 (amended): every call makes exactly one pre-filter query and no call
\* of the generative model; when the pre-filter finds at least one weapon it
\* makes exactly one embedding call and one vector-index query, whatever the
\* category's size, and when it finds none it makes neither.
C20_OneRoundTripEachIfAny ==
  Searched =>
    /\ calls.sql = 1
    /\ calls.llm = 0
    /\ PreFiltered # <<>> => calls.embed = 1 /\ calls.vector = 1
    /\ PreFiltered = <<>> => calls.embed = 0 /\ calls.vector = 0

\* NResults + 1 shotguns ranked with three round trips
C20_Witness ==
  /\ Searched
  /\ Len(PreFiltered) = NResults + 1
  /\ Len(enriched.weapons) = NResults + 1
  /\ calls = [NoCalls EXCEPT !.sql = 1, !.embed = 1, !.vector = 1]
(***************************************************************************)
(* Named entities on the conceptual routes (SpecAsk).                      *)
(***************************************************************************)
\* the rows the names extracted from the question resolve to, per variant
NamedRows ==
  fetch_named_items_from_sql(extract_named_items(question), db, NoEnv).enriched

\* the list of variant t holds a row with the id of row r
HoldsId(list, t, r) ==
  \E j \in DOMAIN list : list[j][id_field_map[t]] = r[id_field_map[t]]

\* C21 (as stated): for every CONCEPTUAL question whose call reaches the
\* formatter, on the category route as on the plain route, every relational
\* row that a name extracted from the question resolves to is in the
\* enriched result handed to the formatter.
C21_NamedEntitiesMerged ==
  (intent = "CONCEPTUAL" /\ prompt # None)
    => \A t \in Range(Variants) :
         \A i \in DOMAIN NamedRows[t] : HoldsId(enriched[t], t, NamedRows[t][i])

(***************************************************************************)
(* The preamble of a session's prompts (SpecDialogue).                     *)
(***************************************************************************)
\* C22 (as stated): whenever a question of a session gets a prompt built,
\* on whatever route, the prompt's preamble is the last min(3, n) of the n
\* turns answered before it in the session, in their original order.
C22_PreambleLastTurns ==
  [][(asked' = asked + 1 /\ prompt' # None)
       => prompt'.history = Preamble(turns)]_vars

(***************************************************************************)
(* The context block of format_vector_results (SpecAsk).                   *)
(***************************************************************************)
\* the records of variant t in the context block, in the block's order
Serialized(t) ==
  LET parts == SelectSeq(prompt.context,
                         LAMBDA p : "item" \in DOMAIN p /\ p.item_type = t)
  IN [i \in 1..Len(parts) |-> parts[i].item]

C24_OneCallOneTurn ==
  [][(asked' = asked + 1 /\ intent' = "CONCEPTUAL" /\ outcome' = "returned")
       => /\ calls'.llm = 1
          /\ Len(conversation_history') = Len(conversation_history) + 1
          /\ SubSeq(conversation_history', 1, Len(conversation_history))
               = conversation_history
          /\ LET turn == conversation_history'[Len(conversation_history')]
                 text == answer'.text
             IN /\ turn.question = question'
                /\ turn.summary =
                     IF Len(text) <= 200 THEN text
                     ELSE SubSeq(text, 1, 200) \o <<".", ".", ".">>]_vars

\* an answer of 201 characters was summarized in 203, and one of 200 in 200
C24_Witness ==
  /\ intent = "CONCEPTUAL"
  /\ outcome = "returned"
  /\ calls.llm = 1
  /\ Len(conversation_history) = 1
  /\ Len(answer.text) = 201
  /\ Len(conversation_history[1].summary) = 203

(***************************************************************************)
(* The list extract_named_items returns (SpecText).                        *)
(***************************************************************************)
RECURSIVE Dedup(_)
\* the list without the later occurrences of a phrase
Dedup(names) ==
  IF names = <<>> THEN <<>>
  ELSE LET front == Dedup(SubSeq(names, 1, Len(names) - 1))
           last == names[Len(names)]
       IN IF last \in Range(front) THEN front ELSE Append(front, last)

\* C25 (as stated): no phrase appears more than once in the output of
\* extract_named_items, whichever patterns matched it.
C25_NoPhraseTwice ==
  potential_names # UnsetNames
    => \A i, j \in DOMAIN potential_names :
         potential_names[i] = potential_names[j] => i = j

\* C25 (amended): extract_named_items returns the list of its matches, in
\* which a phrase may appear more than once; fetch_named_items_from_sql
\* returns for that list the rows it returns for the list without the
\* repeated phrases.
C25_RepeatedPhraseSameRows ==
  potential_names # UnsetNames
    => fetch_named_items_from_sql(potential_names, db, NoEnv)
         = fetch_named_items_from_sql(Dedup(potential_names), db, NoEnv)

\* "The Fixer" between quotes is matched as a capitalized pair and as a
\* quoted string: the list holds it twice, the fetch finds the weapon once
C25_Witness ==
  /\ Quotes(question, THE_FIXER)
  /\ potential_names = <<THE_FIXER, THE_FIXER>>
  /\ Len(fetch_named_items_from_sql(potential_names, db, NoEnv).enriched.weapons) = 1

(***************************************************************************)
(* classify_intent on questions without a keyword (SpecText).              *)
(***************************************************************************)
\* the question has "what is" or "what does" phrasing
WhatPhrasing(q) ==
  Contains(WHAT_IS, lower(q)) \/ Contains(WHAT_DOES, lower(q))

\* a capitalized token other than the "What" that opens the phrasing
CapitalizedName(q) ==
  \E i \in DOMAIN q :
     /\ IsUpper(q[i])
     /\ ~StartsAt(WHAT_IS, lower(q), i)
     /\ ~StartsAt(WHAT_DOES, lower(q), i)

\* C26 (as stated): for a question without a conceptual-signal and without
\* an exact-signal keyword, classify_intent returns EXACT exactly when the
\* question has "what is" or "what does" phrasing together with a
\* capitalized token naming a probable proper noun, and CONCEPTUAL in every
\* other case.
C26_ExactIffProperNoun ==
  (/\ intent # Unset
   /\ ~HasConceptualKeyword(question)
   /\ ~HasExactKeyword(question))
    => (intent = "EXACT" <=> (WhatPhrasing(question) /\ CapitalizedName(question)))

(***************************************************************************)
(* Questions that name several weapon classes (SpecAsk).                   *)
(***************************************************************************)
\* the weapon classes in the order detect_category_filter tries them
ClassPriority ==
  << <<"s","h","o","t","g","u","n">>,
     <<"r","i","f","l","e">>,
     <<"p","i","s","t","o","l">>,
     <<"h","e","a","v","y"," ","g","u","n">>,
     <<"m","e","l","e","e">> >>

\* the classes the question names, as positions of ClassPriority
NamedClasses(q) ==
  {i \in DOMAIN ClassPriority : Contains(ClassPriority[i], lower(q))}

\* C27: for a CONCEPTUAL question the category filter is the one of the
\* first class, in the priority shotgun, rifle, pistol, heavy gun, melee,
\* that the question names, and none when it names no class; the category
\* search fetches weapons of that class only, so the weapons of the other
\* classes the question names are not in the enriched result.
C27_FirstNamedClassOnly ==
  (intent = "CONCEPTUAL" /\ category_filter # UnsetRecord)
    => LET named == NamedClasses(question) IN
       IF named = {} THEN category_filter = None
       ELSE LET first == CHOOSE i \in named : \A j \in named : i <= j
                keyword == ClassPriority[first]
            IN /\ category_filter =
                    [type |-> "weapon",
                     class_pattern |-> <<"%">> \o keyword \o <<"%">>]
               /\ enriched # UnsetRecord
                    => /\ \A t \in Range(Variants) \ {"weapons"} : enriched[t] = <<>>
                       /\ \A j \in DOMAIN enriched.weapons :
                            Contains(keyword, lower(enriched.weapons[j].weapon_class))

\* "Compare shotguns and rifles" on a store with shotguns and the rifle The
\* Fixer: the shotguns are fetched, the rifle is not
C27_Witness ==
  /\ question = Q_SHOTGUNS_RIFLES
  /\ NamedClasses(question) = {1, 2}
  /\ outcome = "returned"
  /\ method = "HYBRID"
  /\ Len(enriched.weapons) >= 2
  /\ \E i \in DOMAIN db.weapons : db.weapons[i].weapon_class = CLASS_RIFLE
  /\ \A j \in DOMAIN enriched.weapons : enriched.weapons[j].weapon_class = CLASS_SHOTGUN

(***************************************************************************)
(* The list of hybrid_category_search as a permutation (SpecRetrieval).    *)
(***************************************************************************)
\* C28: whatever the vector index answered, the weapon list
\* hybrid_category_search returns has exactly as many entries as the
\* pre-filter returned rows, holds no weapon id twice, holds no weapon
\* outside the category, and holds the ids of the pre-filter.
C28_PermutationOfPreFilter ==
  Searched =>
    /\ Len(enriched.weapons) = Len(PreFiltered)
    /\ \A i, j \in DOMAIN enriched.weapons :
         enriched.weapons[i].id = enriched.weapons[j].id => i = j
    /\ \A j \in DOMAIN enriched.weapons :
         Like(category_filter.class_pattern, enriched.weapons[j].weapon_class)
    /\ Range(IdsOf(enriched.weapons)) = Range(IdsOf(PreFiltered))

\* NResults + 1 shotguns behind the document of a weapon that is no longer
\* stored: the list is a rearrangement of the pre-filter's rows
C28_Witness ==
  /\ Searched
  /\ Len(PreFiltered) = NResults + 1
  /\ env.ranking # <<>>
  /\ env.ranking[1] = Doc("weapon", 999)
  /\ Len(enriched.weapons) = NResults + 1
  /\ IdsOf(enriched.weapons) # IdsOf(PreFiltered)

(***************************************************************************)
(* Hits of types enrich_with_sql does not query (SpecRetrieval).           *)
(***************************************************************************)
\* the six types enrich_with_sql has a query for
SixTypes == {"weapon", "armor", "perk", "legendary_perk", "mutation", "consumable"}

\* the hits vector_search handed to enrich_with_sql
VectorHits == Query(env.ranking, NResults)

\* fetch, search and enrichment have been called
Retrieved == potential_names # UnsetNames

\* C29: enrich_with_sql queries the store once for each of the six types
\* weapon, armor, perk, legendary_perk, mutation and consumable that has a
\* hit, and for no other type; a hit of another type (weapon_mod, or
\* 'unknown' for a missing type) raises no error and the result is
\* the one obtained without that hit: a dict with exactly the six variant
\* keys, no record added, the other hits' records unchanged.
C29_OtherTypesIgnored ==
  Retrieved =>
    LET known == SelectSeq(VectorHits, LAMBDA m : m.type \in SixTypes)
        named == IF potential_names # <<>>
                 THEN fetch_named_items_from_sql(potential_names, db, env).enriched
                 ELSE None
    IN /\ (env.db_ok /\ env.embed_ok /\ env.vector_ok) => outcome = "returned"
       /\ outcome = "returned"
            => /\ DOMAIN enriched =
                    {"weapons", "armor", "perks", "legendary_perks",
                     "mutations", "consumables"}
               /\ enriched = enrich_with_sql(known, named, db, env).enriched
               /\ calls.sql =
                    (IF potential_names # <<>> THEN 6 ELSE 0)
                    + Cardinality({t \in SixTypes :
                                     \E i \in DOMAIN VectorHits : VectorHits[i].type = t})

\* a weapon-mod hit ahead of weapon hits: one query, the weapons' rows
C29_Witness ==
  /\ Retrieved
  /\ outcome = "returned"
  /\ VectorHits # <<>>
  /\ VectorHits[1].type = "weapon_mod"
  /\ Len(VectorHits) >= 2
  /\ potential_names = <<>>
  /\ calls.sql = 1
  /\ Len(enriched.weapons) = Len(VectorHits) - 1


(***************************************************************************)
(* The lookup cache.                                                       *)
(***************************************************************************)

\* the row of an entry that get_or_create_lookup inserted
RowOf(c) == [id |-> c.id, name |-> c.name]

\* the entries get_or_create_lookup inserted into a table so far
CreatedIn(table) == {c \in lookup.created : c.table = table}

\* C30: an entry created through get_or_create_lookup is in every mapping
\* that get_cached_lookup serves for its table afterwards and in every
\* mapping the cache holds for it, whatever calls of enable_cache,
\* disable_cache and clear_cache come in between; get_lookup_id returns the
\* entry's id for its name, also without auto_create; and the ids
\* get_lookup_id returned for one name of one table are all the same id.
C30_CreatedEntryServed ==
  /\ lookup.result.op = "get_cached_lookup" =>
       \A c \in CreatedIn(lookup.result.table) : RowOf(c) \in lookup.result.items
  /\ \A e \in lookup.cache :
       \A c \in CreatedIn(e.key[1]) : RowOf(c) \in e.items
  /\ lookup.result.op = "get_lookup_id" =>
       \A c \in CreatedIn(lookup.result.table) :
          c.name = lookup.result.name => lookup.result.id = c.id
  /\ \A a, b \in lookup.returned :
       (a.table = b.table /\ a.name = b.name) => a.id = b.id

\* with caching enabled, get_cached_lookup serves the mapping of a table
\* that received an entry through get_or_create_lookup, an entry whose id
\* get_lookup_id has returned
C30_Witness ==
  /\ lookup.result.op = "get_cached_lookup"
  /\ lookup.cache_enabled
  /\ CreatedIn(lookup.result.table) # {}
  /\ \E c \in CreatedIn(lookup.result.table) : RowOf(c) \in lookup.result.items
  /\ \E a \in lookup.returned :
       \E c \in CreatedIn(lookup.result.table) : a.name = c.name /\ a.id = c.id
====
